---- MODULE Spec2Model ----
(***************************************************************************)
(* Cache-aside layer (app/db/database.py, app/db/cache_service.py) and the *)
(* background refresh service (app/tasks/background_refresh.py).           *)
(*                                                                         *)
(* Documents are functions from field names to values.  A collection is    *)
(* the sequence of its documents in insertion order.  Time is an integer   *)
(* clock `now`.  The refresh service is an asyncio task: one action is one *)
(* run of the task from a resumption to its next suspension (await), the   *)
(* blocking provider calls being steps of their own that no other          *)
(* coroutine can interleave with.                                          *)
(***************************************************************************)
EXTENDS Integers, Sequences, FiniteSets, TLC

\* ---------------------------------------------------------------- bounds
MaxTime == 1
MaxTasks == 2
MaxFaults == 1
\* calls of find_or_create are made while "partners" holds fewer documents
MaxPartners == 3
\* find_all is called with limit and skip in 0..MaxWindow
MaxWindow == 3
\* the endpoints of the get_club_profile shape fill at most MaxSites
\* collections in one behaviour
MaxSites == 1

\* ------------------------------------------------------------- constants
\* background_refresh.py:101  popular_leagues = ["GB1", "ES1", "L1", "IT1", "FR1"]
popular_leagues == <<"GB1", "ES1", "L1", "IT1", "FR1">>
\* background_refresh.py:90   to_list(length=1000)
ClubsListLength == 1000

\* cache_service.py:11     CACHE_EXPIRATION_DAYS = 3
CACHE_EXPIRATION_DAYS == 3
\* cache_service.py:92     timedelta(days=...) in the seconds of the clock
SecondsPerDay == 86400

PlayerIds == {"p1", "p2"}
ClubIds == {"c1", "c2"}
Names == {"A", "B"}
\* cache_service.py:14-24  CacheService.COLLECTIONS
Collections ==
  {"competitions", "clubs", "players", "player_market_values",
   "player_transfers", "player_jersey_numbers", "player_stats",
   "player_achievements", "player_injuries"}
\* the collections of the store: those of COLLECTIONS, "club_players"
\* (clubs.py:47) and "partners"
Stores == Collections \cup {"club_players", "partners"}
TaskIds == 1..MaxTasks

VARIABLES
  now,        \* datetime.utcnow()
  store,      \* store[c]: the documents of collection c, in insertion order
  req,        \* the request-path caller of CacheService.cache_response
  supplied,   \* history: per collection and id, the fields supplied so far
  call,       \* a second caller: its call of is_cache_expired,
              \* get_cached_response, handle_request, cache_response,
              \* find_or_create or an endpoint, with its arguments, its
              \* progress and its result
  is_running, \* BackgroundRefreshService.is_running
  task,       \* BackgroundRefreshService.task (0 is None)
  tk,         \* tk[t]: the refresh_loop task spawned by the t-th start()
  stopWait,   \* the tasks some stop() call is suspended on (await self.task)
  drained,    \* history: the tasks t such that a stop() call made while
              \* self.task was t has returned
  faults,     \* the store and provider failures raised so far
  host        \* the hosting process: the position of its lifecycle hooks
              \* and the state of Database.client

vars ==
  <<now, store, req, supplied, call, is_running, task, tk, stopWait, drained,
    faults, host>>

\* ------------------------------------------------------------- documents
NoDoc == [none |-> TRUE]

\* a document with no field: {}
EmptyDoc == <<>>

Has(d, f) == f \in DOMAIN d

\* dict update {**a, **b}: the fields of b override those of a
Merge(a, b) ==
  [f \in (DOMAIN a) \cup (DOMAIN b) |-> IF f \in DOMAIN b THEN b[f] ELSE a[f]]

\* dict.pop(f): the document without field f
Without(d, f) == [g \in (DOMAIN d) \ {f} |-> d[g]]

\* ------------------------------------------------- Database (database.py)
\* a lookup that ignores the id of the filter: the first document, if any
FindIdx_AnyRecord(coll, id) == IF Len(coll) = 0 THEN 0 ELSE 1

\* index of the first document of `coll` with the given id, 0 if none
FindIdx(coll, id) ==
  LET hits == {i \in 1..Len(coll) : Has(coll[i], "id") /\ coll[i]["id"] = id}
  IN IF hits = {} THEN 0 ELSE CHOOSE i \in hits : \A j \in hits : i <= j

Database_find_one(coll, id) ==
  IF FindIdx(coll, id) = 0 THEN NoDoc ELSE coll[FindIdx(coll, id)]

\* insert_one on a collection with a unique index on id
Database_insert_one_Unique(coll, document, t) ==
  IF FindIdx(coll, document["id"]) # 0 THEN coll
  ELSE Append(coll, Merge(Merge(document, [createdAt |-> t]), [_id |-> Len(coll) + 1]))

\* insert_one stamps createdAt and the store assigns the internal _id
Database_insert_one(coll, document, t) ==
  Append(coll, Merge(Merge(document, [createdAt |-> t]), [_id |-> Len(coll) + 1]))

\* update_one replacing the matched document by the given fields
Database_update_one_Replace(coll, id, set, t) ==
  IF FindIdx(coll, id) = 0 THEN coll
  ELSE [coll EXCEPT ![FindIdx(coll, id)] = Merge(set, [updatedAt |-> t])]

\* update_one: $set of the given fields on the first match, updatedAt forced
Database_update_one(coll, id, set, t) ==
  IF FindIdx(coll, id) = 0 THEN coll
  ELSE [coll EXCEPT ![FindIdx(coll, id)] = Merge(Merge(@, set), [updatedAt |-> t])]

\* a filter of equalities: the document has every field of the query with
\* the query's value
Matches(d, query) == \A f \in DOMAIN query : Has(d, f) /\ d[f] = query[f]

\* the documents of `coll` matching the query, by position
MatchIdx(coll, query) == {i \in 1..Len(coll) : Matches(coll[i], query)}

\* collection.find_one(query): the first match in insertion order, or None
Database_find_one_by(coll, query) ==
  IF MatchIdx(coll, query) = {} THEN NoDoc
  ELSE coll[CHOOSE i \in MatchIdx(coll, query) :
              \A j \in MatchIdx(coll, query) : i <= j]

\* cursor.skip(n) / cursor.limit(n) on a sequence of documents
Skip(docs, n) == SubSeq(docs, n + 1, Len(docs))
Limit(docs, n) == SubSeq(docs, 1, IF n < Len(docs) THEN n ELSE Len(docs))

\* find_all applying the limit before the skip
Database_find_all_LimitFirst(coll, query, limit, skip) ==
  LET found == SelectSeq(coll, LAMBDA d : Matches(d, query))
      cut == IF limit > 0 THEN Limit(found, limit) ELSE found
      window == Skip(cut, skip)
  IN [i \in 1..Len(window) |-> Without(window[i], "_id")]

\* find_all, lines 61-66: find(query, {'_id': 0}).skip(skip), limited when
\* limit > 0, read to a list
Database_find_all(coll, query, limit, skip) ==
  LET found == SelectSeq(coll, LAMBDA d : Matches(d, query))
      rest == Skip(found, skip)
      window == IF limit > 0 THEN Limit(rest, limit) ELSE rest
  IN [i \in 1..Len(window) |-> Without(window[i], "_id")]

\* get_all_cached_responses, line 53
get_all_cached_responses(coll, limit, skip) ==
  Database_find_all(coll, EmptyDoc, limit, skip)

\* count_cached_responses, lines 67-68: count_documents(query or {})
count_cached_responses(coll, query) == Cardinality(MatchIdx(coll, query))

\* find_or_create inserting whatever the lookup found
FocAnswered_AlwaysInsert(c, existing, t) == [c EXCEPT !.pc = "insert", !.at = t]

\* find_or_create, lines 89-93: the lookup has answered; an existing record
\* is returned, otherwise insert_one runs up to its awaited write: line 73
\* has stamped createdAt with utcnow() = t by then
FocAnswered(c, existing, t) ==
  IF existing # NoDoc THEN [c EXCEPT !.pc = "done", !.ret = existing]
  ELSE [c EXCEPT !.pc = "insert", !.at = t]

\* ------------------------------------------ CacheService.is_cache_expired
\* the values an updatedAt field can hold: a datetime object (naive as
\* utcnow() makes it, or carrying a UTC offset), a string (an ISO timestamp
\* with no suffix, with "Z" or with "+00:00", or another text), another
\* object
Naive(t) == [type |-> "datetime", t |-> t, tz |-> FALSE]
Aware(t) == [type |-> "datetime", t |-> t, tz |-> TRUE]
IsoStr(t, suffix) == [type |-> "str", iso |-> TRUE, t |-> t, suffix |-> suffix]
OtherStr == [type |-> "str", iso |-> FALSE]
OtherValue == [type |-> "int"]

\* line 92: timedelta(days=CACHE_EXPIRATION_DAYS)
ExpirationWindow == CACHE_EXPIRATION_DAYS * SecondsPerDay

\* line 87: datetime.fromisoformat(v.replace("Z", "+00:00")); ValueError on
\* a text that is no ISO timestamp, an offset makes the datetime aware
FromIsoFormat(v) ==
  IF v.iso
  THEN [raised |-> FALSE, value |-> [type |-> "datetime", t |-> v.t, tz |-> v.suffix # ""]]
  ELSE [raised |-> TRUE, value |-> v]

\* lines 86-89: updated_at
UpdatedAtOf(v) ==
  IF v.type = "str" THEN FromIsoFormat(v) ELSE [raised |-> FALSE, value |-> v]

\* line 92: utcnow() - updated_at raises TypeError unless updated_at is a
\* naive datetime
SubtractRaises(u) == u.type # "datetime" \/ u.tz

\* is_cache_expired(data), lines 81-95, t being utcnow()
is_cache_expired(data, t) ==
  IF data = NoDoc \/ DOMAIN data = {} \/ ~Has(data, "updatedAt") THEN TRUE
  ELSE LET u == UpdatedAtOf(data["updatedAt"])
       IN IF u.raised \/ SubtractRaises(u.value) THEN TRUE
          ELSE t - u.value.t > ExpirationWindow

\* -------------------------------------------- CacheService.cache_response
\* cache_response keeping an updatedAt the caller's document carries
CacheStamp_KeepCaller(data, t) ==
  IF Has(data, "updatedAt") THEN data ELSE Merge(data, [updatedAt |-> t])

\* line 110: data["updatedAt"] = utcnow(), then find_one is awaited
CacheStamp(data, t) == Merge(data, [updatedAt |-> t])

\* cache_response without the existence check: every call inserts
CachePrepare_AlwaysInsert(existing, data, t) ==
  [kind |-> "insert", doc |-> Merge(data, [createdAt |-> t]), at |-> t]

\* cache_response inserting the caller's document as it came, without the
\* updatedAt of line 110
CachePrepare_Unstamped(existing, data, t) ==
  IF existing # NoDoc
  THEN [kind |-> "update", doc |-> data, at |-> t]
  ELSE [kind |-> "insert",
        doc |-> [f \in DOMAIN data \ {"updatedAt"} |-> data[f]], at |-> t]

\* the insert path taking the time of the creation from the updatedAt of
\* line 110 instead of the clock
CachePrepare_CreatedAtCall(existing, data, t) ==
  IF existing # NoDoc
  THEN [kind |-> "update", doc |-> data, at |-> t]
  ELSE [kind |-> "insert", doc |-> Merge(data, [createdAt |-> data["updatedAt"]]),
        at |-> data["updatedAt"]]

\* lines 113-127 up to the awaited write: the write cache_response issues
\* once find_one has answered `existing`, t being utcnow() at that moment
CachePrepare(existing, data, t) ==
  IF existing # NoDoc
  THEN [kind |-> "update", doc |-> data, at |-> t]
  ELSE [kind |-> "insert", doc |-> Merge(data, [createdAt |-> t]), at |-> t]

\* a write that replaces the collection by the written document
CacheApply_Replace(coll, w) ==
  IF w.kind = "none" THEN coll ELSE <<Merge(w.doc, [_id |-> 1])>>

\* the awaited write reaching the store
CacheApply(coll, w) ==
  IF w.kind = "update"
  THEN Database_update_one(coll, w.doc["id"], w.doc, w.at)
  ELSE Database_insert_one(coll, w.doc, w.at)

NoWrite == [kind |-> "none", doc |-> NoDoc, at |-> 0]

\* -------------------------------------- CacheService.get_cached_response
\* get_cached_response raising when no record has the id
get_cached_response_Raises(coll, id) ==
  IF FindIdx(coll, id) = 0
  THEN [ret |-> NoDoc, raised |-> TRUE]
  ELSE [ret |-> Database_find_one(coll, id), raised |-> FALSE]

\* lines 27-38: the answer of find_one, None when no record has the id
get_cached_response(coll, id) ==
  [ret |-> Database_find_one(coll, id), raised |-> FALSE]

\* ------------------------------------------- CacheService.handle_request
\* what fetch_function(**kwargs) does: it raises, or returns None, a dict or
\* a model object (attributes, and a dict() method)
NoResp == [kind |-> "none", doc |-> NoDoc]

FetchResults(id) ==
  {NoResp, [kind |-> "raise", doc |-> NoDoc]}
  \cup {[kind |-> k, doc |-> [id |-> i, name |-> "B"]] :
          k \in {"dict", "model"}, i \in {id, ""}}

\* line 163: hasattr(response, "id") and response.id
HasTruthyId(resp) ==
  resp.kind = "model" /\ Has(resp.doc, "id") /\ resp.doc["id"] # ""

\* handle_request, line 151: the call is made and awaits the lookup
HandleBegin(c, id) ==
  [op |-> "handle_request", pc |-> "lookup", coll |-> c, id |-> id,
   key |-> id, hit |-> FALSE, fetches |-> 0, resp |-> NoResp, data |-> NoDoc,
   w |-> NoWrite, ret |-> NoDoc, raised |-> FALSE, overlap |-> FALSE]

\* handle_request without the hit branch of lines 153-157
HandleAnswered_AlwaysFetch(h, cached, resp, t) ==
  IF resp.kind = "raise"
  THEN [h EXCEPT !.pc = "done", !.fetches = @ + 1, !.resp = resp, !.raised = TRUE]
  ELSE IF HasTruthyId(resp)
  THEN [h EXCEPT !.pc = "cr_find", !.fetches = @ + 1, !.resp = resp,
          !.data = CacheStamp(Merge(resp.doc, [updatedAt |-> IsoStr(t, "")]), t)]
  ELSE [h EXCEPT !.pc = "done", !.fetches = @ + 1, !.resp = resp, !.ret = resp.doc]

\* lines 153-171 once the lookup has answered `cached`: the hit returns the
\* record without _id; the miss calls fetch_function, which answers `resp`,
\* and caches a response that has a truthy id attribute (line 169 stamps an
\* ISO text that line 110 of cache_response replaces)
HandleAnswered(h, cached, resp, t) ==
  IF cached # NoDoc
  THEN [h EXCEPT !.pc = "done", !.hit = TRUE, !.ret = Without(cached, "_id")]
  ELSE IF resp.kind = "raise"
  THEN [h EXCEPT !.pc = "done", !.fetches = @ + 1, !.resp = resp, !.raised = TRUE]
  ELSE IF HasTruthyId(resp)
  THEN [h EXCEPT !.pc = "cr_find", !.fetches = @ + 1, !.resp = resp,
          !.data = CacheStamp(Merge(resp.doc, [updatedAt |-> IsoStr(t, "")]), t)]
  ELSE [h EXCEPT !.pc = "done", !.fetches = @ + 1, !.resp = resp, !.ret = resp.doc]

\* ------------------------------------------ players.py: get_player_profile
LB_AGENCY == "LB SPORTS COMPANY"

\* check_if_lb_player, lines 42-45: data.get("agent").get("name") raises
\* AttributeError when data.get("agent") is None, that is when the data has
\* no agent key or holds None under it
check_if_lb_player(data) ==
  IF ~Has(data, "agent") THEN [raised |-> TRUE, flag |-> FALSE]
  ELSE IF data["agent"] = NoDoc THEN [raised |-> TRUE, flag |-> FALSE]
  ELSE [raised |-> FALSE,
        flag |-> Has(data["agent"], "name") /\ data["agent"]["name"] = LB_AGENCY]

\* ensure_partner_from_agent, line 30: `if agent and agent.get("name")`, the
\* agent is there and not empty, and so is its name
HasNamedAgent(data) ==
  /\ Has(data, "agent") /\ data["agent"] # NoDoc /\ DOMAIN data["agent"] # {}
  /\ Has(data["agent"], "name") /\ data["agent"]["name"] # ""

\* ensure_partner_from_agent, lines 31-35: the partner made of the agent
PartnerOf(data) ==
  [name |-> data["agent"]["name"], transfermarktUrl |-> data["agent"]["url"],
   notes |-> ""]

\* the store holds the naive datetime that utcnow() gave cache_response
AsStored(d) ==
  IF d # NoDoc /\ Has(d, "updatedAt")
  THEN Merge(d, [updatedAt |-> Naive(d["updatedAt"])]) ELSE d

\* get_player_profile, lines 186-188: the flag computed from the agent of the
\* data is cached with it (the call raises when there is no agent)
ProfileCached(h, data, t) ==
  LET c == check_if_lb_player(data)
      flagged == Merge(data, [isLbPlayer |-> c.flag]) IN
  IF c.raised
  THEN [h EXCEPT !.pc = "done", !.raised = TRUE,
                 !.resp = [kind |-> "dict", doc |-> data]]
  ELSE [h EXCEPT !.pc = "cr_find", !.data = CacheStamp(flagged, t),
                 !.resp = [kind |-> "dict", doc |-> flagged]]

\* get_player_profile, lines 171-184: get_cached_response has answered
\* `cached`; a hit that is not expired is re-evaluated and, when its flag
\* differs from the agent's, cached again; otherwise the provider is asked
\* and answers `out` ("raise", "none", or "data" and the profile d)
ProfileLookedUp(h, cached, out, d, t) ==
  IF cached # NoDoc /\ ~is_cache_expired(AsStored(cached), t)
  THEN LET c == check_if_lb_player(cached)
           old == IF Has(cached, "isLbPlayer") THEN cached["isLbPlayer"] ELSE FALSE
       IN IF c.raised THEN [h EXCEPT !.pc = "done", !.hit = TRUE, !.raised = TRUE]
          ELSE IF c.flag # old
          THEN [ProfileCached(h, Merge(cached, [isLbPlayer |-> c.flag]), t)
                  EXCEPT !.hit = TRUE]
          ELSE [h EXCEPT !.pc = "done", !.hit = TRUE, !.ret = cached]
  ELSE IF out # "data"
  THEN [h EXCEPT !.pc = "done", !.fetches = @ + 1, !.raised = TRUE]
  ELSE IF HasNamedAgent(d)
  THEN [h EXCEPT !.pc = "ep_find", !.fetches = @ + 1,
                 !.resp = [kind |-> "dict", doc |-> d]]
  ELSE [ProfileCached(h, d, t) EXCEPT !.fetches = @ + 1]

\* register_player, lines 66-75, once the partner is ensured: the custom
\* fields of the request (kept in h.data) and the flag computed from the
\* agent are set on the fetched data, which is cached; check_if_lb_player
\* raises when there is no agent and line 81 turns that into a 500
Registered(h, d, t) ==
  LET c == check_if_lb_player(d)
      data == Merge(Merge(d, h.data), [isLbPlayer |-> c.flag]) IN
  IF c.raised
  THEN [h EXCEPT !.pc = "done", !.raised = TRUE, !.data = NoDoc,
                 !.resp = [kind |-> "dict", doc |-> d]]
  ELSE [h EXCEPT !.pc = "cr_find", !.data = CacheStamp(data, t),
                 !.resp = [kind |-> "dict", doc |-> data]]

\* register_player, lines 52-64: the provider is asked at once and answers
\* `out` ("raise": a 500, "none": the 404 of line 59, or "data" and the
\* profile d); a profile with a named agent goes to find_or_create
RegisterFetched(h, out, d, t) ==
  IF out # "data"
  THEN [h EXCEPT !.pc = "done", !.fetches = @ + 1, !.raised = TRUE, !.data = NoDoc]
  ELSE IF HasNamedAgent(d)
  THEN [h EXCEPT !.pc = "ep_find", !.fetches = @ + 1,
                 !.resp = [kind |-> "dict", doc |-> d]]
  ELSE [Registered(h, d, t) EXCEPT !.fetches = @ + 1]

\* the endpoints of the get_club_profile shape: the collection they cache
\* into, the resource their path names, what their cache key is made of
\* ("id": the resource id; "season": f"{id}_{season_id}" when a season is
\* given; "page": f"{id}_{page_number}") and whether a hit is tested with
\* is_cache_expired (get_competition_clubs returns any record it finds)
Handlers ==
  {[op |-> "get_club_profile", coll |-> "clubs",
    ids |-> "club", keyed |-> "id", checks |-> TRUE],
   [op |-> "get_club_players", coll |-> "club_players",
    ids |-> "club", keyed |-> "season", checks |-> TRUE],
   [op |-> "get_competition_clubs", coll |-> "competitions",
    ids |-> "competition", keyed |-> "season", checks |-> FALSE],
   [op |-> "get_player_market_value", coll |-> "player_market_values",
    ids |-> "player", keyed |-> "id", checks |-> TRUE],
   [op |-> "get_player_transfers", coll |-> "player_transfers",
    ids |-> "player", keyed |-> "id", checks |-> TRUE],
   [op |-> "get_player_jersey_numbers", coll |-> "player_jersey_numbers",
    ids |-> "player", keyed |-> "id", checks |-> TRUE],
   [op |-> "get_player_stats", coll |-> "player_stats",
    ids |-> "player", keyed |-> "id", checks |-> TRUE],
   [op |-> "get_player_injuries", coll |-> "player_injuries",
    ids |-> "player", keyed |-> "page", checks |-> TRUE],
   [op |-> "get_player_achievements", coll |-> "player_achievements",
    ids |-> "player", keyed |-> "id", checks |-> TRUE]}

HandlerOf(op) == CHOOSE hd \in Handlers : hd.op = op
ClubProfileHandler == {HandlerOf("get_club_profile")}

\* the second part of a cache key: a season ("" when the request names
\* none) or a page number as the f-string prints it
KeyArgs(hd) ==
  IF hd.keyed = "season" THEN {"", "2024"}
  ELSE IF hd.keyed = "page" THEN {ToString(n) : n \in 1..2}
  ELSE {""}

\* cache_key: clubs.py line 45, competitions.py line 25, players.py line 380
CacheKey(id, x) == IF x = "" THEN id ELSE id \o "_" \o x

\* get_club_profile, lines 25-39, and the handlers of the same shape, once
\* get_cached_response has answered `cached`: a hit (that is not expired,
\* where the handler checks) is returned; otherwise the provider is asked
\* and answers `out` ("raise", "none", or "data" and the document d), and a
\* truthy answer is cached, under the cache key when that is a composite one
ExpiryLookedUp(h, checks, cached, out, d, t) ==
  IF cached # NoDoc /\ (~checks \/ ~is_cache_expired(AsStored(cached), t))
  THEN [h EXCEPT !.pc = "done", !.hit = TRUE, !.ret = cached]
  ELSE IF out = "raise"
  THEN [h EXCEPT !.pc = "done", !.fetches = @ + 1, !.raised = TRUE]
  ELSE IF out = "none"
  THEN [h EXCEPT !.pc = "done", !.fetches = @ + 1]
  ELSE LET data == IF h.key # h.id THEN Merge(d, [id |-> h.key]) ELSE d IN
       [h EXCEPT !.pc = "cr_find", !.fetches = @ + 1,
                 !.resp = [kind |-> "dict", doc |-> data],
                 !.data = CacheStamp(data, t)]

\* str(result.inserted_id): the text of the store-internal identifier
StrOf(n) == ToString(n)

\* what the caller of cache_response returns once the write has landed in
\* `coll`: handle_request its response (line 171); cache_response itself
\* the id (line 121) or the text of the inserted _id (database.py line 75);
\* an endpoint the dict it gave to cache_response, which line 110 has
\* stamped and which an insert has stamped again (database.py line 73) and
\* given its _id
Returned(h, coll) ==
  IF h.op = "handle_request" THEN h.resp.doc
  ELSE IF h.op = "cache_response"
  THEN IF h.w.kind = "update" THEN h.data["id"] ELSE StrOf(Len(coll) + 1)
  ELSE IF h.w.kind = "update" THEN h.data
  ELSE Merge(Merge(h.w.doc, [createdAt |-> h.w.at]), [_id |-> Len(coll) + 1])

\* ------------------------------------------------------ request documents
PlayerDocs ==
  {[id |-> p] : p \in PlayerIds}
  \cup {[id |-> p, name |-> n] : p \in PlayerIds, n \in Names}
  \cup {[id |-> p, isLbPlayer |-> b] : p \in PlayerIds, b \in BOOLEAN}
  \cup {[id |-> p, name |-> n, isLbPlayer |-> b] :
          p \in PlayerIds, n \in Names, b \in BOOLEAN}

IdleReq ==
  [pc |-> "idle", coll |-> "players", data |-> NoDoc, w |-> NoWrite, t0 |-> 0]

\* documents that carry one payload field each
PartialDocs ==
  {[id |-> p, name |-> n] : p \in PlayerIds, n \in Names}
  \cup {[id |-> p, isLbPlayer |-> b] : p \in PlayerIds, b \in BOOLEAN}

\* documents whose caller already put a timestamp in them: an updatedAt that
\* is stale (-1, before every clock value) or ahead of the clock (9), or a
\* createdAt (-1)
StampedDocs ==
  {[id |-> p] : p \in PlayerIds}
  \cup {[id |-> p, updatedAt |-> u] : p \in PlayerIds, u \in {-1, 9}}
  \cup {[id |-> p, createdAt |-> -1] : p \in PlayerIds}

\* payload documents, some carrying a timestamp of the caller's: a stale
\* updatedAt (-1), or a createdAt (-1)
FreshDocs ==
  {[id |-> p, name |-> "A"] : p \in PlayerIds}
  \cup {[id |-> p, name |-> "B", updatedAt |-> -1] : p \in PlayerIds}
  \cup {[id |-> p, isLbPlayer |-> TRUE, createdAt |-> -1] : p \in PlayerIds}

NoCall == [op |-> "none", pc |-> "done"]

\* the arguments of is_cache_expired: no record, an empty one, records
\* without updatedAt, and records whose updatedAt is around the window
ExpiryStamps ==
  LET ts == {0 - ExpirationWindow - 1, 0 - ExpirationWindow,
             1 - ExpirationWindow, 2 - ExpirationWindow, 0, 1}
  IN {Naive(t) : t \in ts} \cup {Aware(t) : t \in ts}
     \cup {IsoStr(t, x) : t \in ts, x \in {"", "Z", "+00:00"}}
     \cup {OtherStr, OtherValue}

ExpiryInputs ==
  {NoDoc, EmptyDoc}
  \cup {[id |-> p] : p \in PlayerIds}
  \cup {[updatedAt |-> v] : v \in ExpiryStamps}
  \cup {[id |-> p, updatedAt |-> v] : p \in PlayerIds, v \in ExpiryStamps}

\* the fields a caller supplies, as the history variable records them: per
\* collection that was given a document, per id, the fields given so far
NoneSupplied == <<>>

SuppliedOf(sup, c) ==
  IF c \in DOMAIN sup THEN sup[c] ELSE [i \in PlayerIds \cup ClubIds |-> NoDoc]

Supply(sup, c, doc) ==
  [x \in DOMAIN sup \cup {c} |->
     IF x # c THEN sup[x]
     ELSE [SuppliedOf(sup, c) EXCEPT
             ![doc["id"]] = IF @ = NoDoc THEN doc ELSE Merge(@, doc)]]

\* ------------------------------------------------- the provider (consumed)
\* TransfermarktClubSearch(query=league).search_clubs(): the clubs of a league
SeedResult(li) ==
  IF li = 1 THEN <<"c1">> ELSE IF li = 2 THEN <<"c2">> ELSE <<>>

\* TransfermarktClubPlayers(club_id).get_club_players(): the roster of a club
Roster(c) == IF c = "c1" THEN <<"p1", "p2">> ELSE <<"p2">>

\* TransfermarktPlayerProfile(player_id).get_player_profile(): a profile,
\* without an isLbPlayer field ("plain") or with one ("flagged")
Profiles(p, shapes) ==
  {[id |-> p, name |-> "B"] : x \in shapes \cap {"plain"}}
  \cup {[id |-> p, name |-> "B", isLbPlayer |-> FALSE] : x \in shapes \cap {"flagged"}}

\* TransfermarktPlayerProfile(player_id).get_player_profile() as the request
\* path sees it: a profile with an agent (the agency or another one) or
\* with none
NoAgent == "no agent"
NoneAgent == "agent None"
AgentNames == {LB_AGENCY, "Other Agency", "", NoAgent, NoneAgent}

ProfilesOf(p, n, agents) ==
  {[id |-> p, name |-> n, agent |-> [name |-> a, url |-> "/agent/1"]] :
     a \in agents \ {NoAgent, NoneAgent}}
  \cup {[id |-> p, name |-> n] : a \in agents \cap {NoAgent}}
  \cup {[id |-> p, name |-> n, agent |-> NoDoc] : a \in agents \cap {NoneAgent}}

AgentProfiles(p) == ProfilesOf(p, "B", AgentNames)

\* the same profile at the time of a registration
RegisterProfiles(p, agents) == ProfilesOf(p, "A", agents)

\* the body of a registration request: PlayerRegistration without the id
Registrations == {[youtubeUrl |-> NoDoc, notes |-> "n", partnerId |-> NoDoc]}

\* TransfermarktClubProfile(club_id).get_club_profile(): the profile of the
\* club asked for
ClubProfiles(c) == {[id |-> c, name |-> c]}

\* the resources the endpoints are asked for, and what the provider answers
\* for resource i
CompetitionIds == {"GB1"}
HandlerIds(hd) ==
  IF hd.op = "get_club_profile" THEN ClubIds
  ELSE IF hd.ids = "club" THEN {"c1"}
  ELSE IF hd.ids = "player" THEN {"p1"}
  ELSE CompetitionIds
HandlerDocs(hd, i) ==
  IF hd.op = "get_club_profile" THEN ClubProfiles(i) ELSE {[id |-> i, name |-> "B"]}

\* the bodies of the partner registration requests: PartnerCreate
PartnerRequests ==
  {[name |-> "A", notes |-> NoDoc],
   [name |-> "B", notes |-> NoDoc, transfermarktUrl |-> "https://tm/agent/1"]}

\* --------------------------------------------------- refresh_loop tasks
SuspendPcs ==
  {"spawned", "clubs_read", "seed_sleep", "roster_sleep", "cached_read",
   "cr_find", "cr_write", "player_sleep", "cycle_sleep"}

FreshTask ==
  [st |-> "unspawned", pc |-> "spawned", exit |-> "none", mid |-> FALSE,
   clubs |-> <<>>, ci |-> 0, li |-> 0, roster |-> <<>>, pi |-> 0,
   is_lb |-> FALSE, data |-> NoDoc, w |-> NoWrite,
   result |-> "none", outcome |-> "none",
   calls |-> 0, delays |-> 0, nC |-> 0, nP |-> 0, seeded |-> FALSE,
   paced |-> TRUE]

Suspended(t) ==
  IF tk[t].st \in {"unspawned", "done"} THEN TRUE ELSE tk[t].pc \in SuspendPcs
AllSuspended == \A t \in TaskIds : Suspended(t)
\* The event loop runs one coroutine at a time and its ready queue is FIFO:
\* task.cancel() queues the wakeup of the cancelled task, so that task is
\* resumed (with CancelledError) before any step a live task takes later.
Runnable(t) ==
  /\ tk[t].st = "live"
  /\ \A u \in TaskIds \ {t} : Suspended(u) /\ tk[u].st # "cancelled"

\* ------------------------------------------------------ exception handlers
\* Raised conditions: "Exception" (a store or provider failure) and
\* "Cancelled" (asyncio.CancelledError, a BaseException).
\* a handler that also swallows CancelledError (a bare except)
PlayerCatches_All(kind) == TRUE

\* refresh_player_profile without its handler
PlayerCatches_Nothing(kind) == FALSE

\* refresh_player_profile, line 169: except Exception
PlayerCatches(kind) == kind = "Exception"
\* refresh_all_players without its per-club handler
ClubCatches_Nothing(kind) == FALSE

\* refresh_all_players, line 83: except Exception
ClubCatches(kind) == kind = "Exception"
\* refresh_loop without its handler
LoopCatches_Nothing(kind) == FALSE

\* refresh_loop, line 62: except Exception
LoopCatches(kind) == kind = "Exception"

\* the try blocks a position lies in
Level(pc) ==
  IF pc \in {"cached_read", "profile_call", "cr_find", "cr_write"} THEN "player"
  ELSE IF pc \in {"roster_call", "roster_sleep", "player_sleep"} THEN "club"
  ELSE IF pc \in {"clubs_read", "seed_call", "seed_sleep"} THEN "cycle"
  ELSE "outer"

\* the handler an exception raised at pc lands in, innermost first
Unwind(pc, kind) ==
  IF Level(pc) = "player" /\ PlayerCatches(kind) THEN "h_player"
  ELSE IF Level(pc) \in {"player", "club"} /\ ClubCatches(kind) THEN "h_club"
  ELSE IF Level(pc) \in {"player", "club", "cycle"} /\ LoopCatches(kind)
       THEN "h_loop"
  ELSE "escaped"

\* the coroutine ends: the task is done
Dead(rec, why) ==
  [FreshTask EXCEPT !.st = "done", !.exit = why,
                    !.mid = rec.pc \notin {"spawned", "cycle_sleep"}]

\* refresh_all_players never returning to the loop: its end starts the
\* discovery again
EndCycle_StartOver(rec, how) ==
  [rec EXCEPT !.st = "live", !.pc = "clubs_read", !.outcome = "none",
              !.clubs = <<>>, !.ci = 0, !.li = 0, !.roster = <<>>, !.pi = 0,
              !.is_lb = FALSE, !.data = NoDoc, !.w = NoWrite, !.result = "none",
              !.calls = 0, !.delays = 0, !.nC = 0, !.nP = 0, !.seeded = FALSE]

\* refresh_all_players is over; refresh_loop goes to sleep(60)
EndCycle(rec, how) ==
  [rec EXCEPT !.st = "live", !.pc = "cycle_sleep", !.outcome = how,
              !.clubs = <<>>, !.ci = 0, !.li = 0, !.roster = <<>>, !.pi = 0,
              !.is_lb = FALSE, !.data = NoDoc, !.w = NoWrite, !.result = "none"]

\* for club in clubs: the next iteration, or the end of the loop
NextClub(rec) ==
  IF rec.ci < Len(rec.clubs)
  THEN [rec EXCEPT !.st = "live", !.ci = @ + 1, !.pc = "roster_call",
                   !.roster = <<>>, !.pi = 0, !.result = "none",
                   !.is_lb = FALSE, !.data = NoDoc, !.w = NoWrite]
  ELSE EndCycle(rec, "ok")

\* refresh_player_profile returns; refresh_club_players goes to sleep
AfterPlayer(rec, res) ==
  [rec EXCEPT !.st = "live", !.pc = "player_sleep", !.result = res,
              !.is_lb = FALSE, !.data = NoDoc, !.w = NoWrite]

\* an exception of the given kind is raised where the task stands
Raise(rec, kind) ==
  LET land == Unwind(rec.pc, kind) IN
  IF land = "h_player" THEN AfterPlayer(rec, "failed")
  ELSE IF land = "h_club" THEN NextClub(rec)
  ELSE IF land = "h_loop" THEN EndCycle(rec, "failed")
  ELSE Dead(rec, IF kind = "Cancelled" THEN "cancelled" ELSE "error")

\* a loop that runs one cycle: after the first sleep(60) the coroutine returns
LoopHead_Once(rec, running) ==
  IF running /\ rec.pc = "spawned"
  THEN [rec EXCEPT !.pc = "clubs_read", !.calls = 0, !.delays = 0, !.nC = 0,
                   !.nP = 0, !.seeded = FALSE, !.result = "none",
                   !.outcome = "none"]
  ELSE Dead(rec, "returned")

\* ------------------------------------------- refresh_loop, step by step
\* while self.is_running: ... await self.refresh_all_players() reaches
\* get_all_clubs' awaited find({}).to_list(length=1000)
LoopHead(rec, running) ==
  IF running
  THEN [rec EXCEPT !.pc = "clubs_read", !.calls = 0, !.delays = 0, !.nC = 0,
                   !.nP = 0, !.seeded = FALSE, !.result = "none",
                   !.outcome = "none"]
  ELSE Dead(rec, "returned")

SubSeqTo(s, n) == IF Len(s) <= n THEN s ELSE SubSeq(s, 1, n)

\* get_all_clubs returning the empty list of an empty collection, with no
\* seeding
ClubsFound_NoSeed(rec, found) ==
  IF found # <<>>
  THEN [rec EXCEPT !.clubs = [i \in 1..Len(found) |-> found[i]["id"]],
                   !.ci = 1, !.pc = "roster_call"]
  ELSE EndCycle(rec, "ok")

\* get_all_clubs lines 89-101 once the clubs collection has been read
ClubsFound(rec, found) ==
  IF found # <<>>
  THEN [rec EXCEPT !.clubs = [i \in 1..Len(found) |-> found[i]["id"]],
                   !.ci = 1, !.pc = "roster_call"]
  ELSE [rec EXCEPT !.seeded = TRUE, !.clubs = <<>>, !.li = 1,
                   !.pc = "seed_call"]

\* a provider call is issued (history: the call count, and whether a whole
\* delay has passed since the previous call)
Called(rec) == [rec EXCEPT !.calls = @ + 1, !.paced = FALSE]
\* an asyncio.sleep(SCRAPE_DELAY) has run to its end
Delayed(rec) == [rec EXCEPT !.delays = @ + 1, !.paced = TRUE]

\* get_all_clubs lines 103-112: search_clubs() has answered for league li
Seeded(rec, out) ==
  IF out = "raise" THEN Raise(rec, "Exception")
  ELSE [rec EXCEPT !.pc = "seed_sleep",
                   !.clubs = IF out = "ok" THEN @ \o SeedResult(rec.li) ELSE @]

\* get_all_clubs lines 112-114 and refresh_all_players lines 73-82
AfterSeedSleep(rec) ==
  IF rec.li < Len(popular_leagues)
  THEN [rec EXCEPT !.li = @ + 1, !.pc = "seed_call"]
  ELSE IF rec.clubs = <<>> THEN EndCycle(rec, "ok")
  ELSE [rec EXCEPT !.ci = 1, !.pc = "roster_call"]

\* refresh_club_players lines 121-125: get_club_players() has answered
RosterFetched(rec, out) ==
  IF out = "raise" THEN Raise(rec, "Exception")
  ELSE LET r == IF out = "ok" THEN Roster(rec.clubs[rec.ci]) ELSE <<>>
       IN [rec EXCEPT !.pc = "roster_sleep", !.roster = r, !.nP = @ + Len(r)]

\* refresh_club_players lines 127-136, and refresh_player_profile up to
\* the awaited get_cached_response
AfterRosterSleep(rec) ==
  IF rec.roster = <<>> THEN NextClub(rec)
  ELSE [rec EXCEPT !.pi = 1, !.pc = "cached_read", !.result = "pending"]

\* refresh_player_profile lines 147-148: the cached record has been read
CachedRead(rec, cached) ==
  [rec EXCEPT !.pc = "profile_call",
              !.is_lb = IF cached # NoDoc /\ Has(cached, "isLbPlayer")
                        THEN cached["isLbPlayer"] ELSE FALSE]

\* the refresh without lines 162-163: the flag is not forced
Fetched_NoSticky(rec, out, d, t) ==
  IF out = "raise" THEN Raise(rec, "Exception")
  ELSE IF out = "none" THEN AfterPlayer(rec, "skipped")
  ELSE [rec EXCEPT !.pc = "cr_find", !.data = CacheStamp(d, t)]

\* the refresh without lines 154-156: an empty fetch is cached as well
Fetched_CacheEmpty(rec, out, d, t) ==
  IF out = "raise" THEN Raise(rec, "Exception")
  ELSE [rec EXCEPT !.pc = "cr_find",
          !.data = CacheStamp(IF out = "none"
                              THEN [id |-> rec.roster[rec.pi]]
                              ELSE IF rec.is_lb THEN Merge(d, [isLbPlayer |-> TRUE])
                              ELSE d, t)]

\* the refresh writing the flag it read in every case, instead of lines
\* 162-163
Fetched_WriteFlag(rec, out, d, t) ==
  IF out = "raise" THEN Raise(rec, "Exception")
  ELSE IF out = "none" THEN AfterPlayer(rec, "skipped")
  ELSE [rec EXCEPT !.pc = "cr_find",
          !.data = CacheStamp(Merge(d, [isLbPlayer |-> rec.is_lb]), t)]

\* refresh_player_profile lines 152-166: get_player_profile() has answered
\* with `out` ("raise", "none", or "data" and the profile d), at time t
Fetched(rec, out, d, t) ==
  IF out = "raise" THEN Raise(rec, "Exception")
  ELSE IF out = "none" THEN AfterPlayer(rec, "skipped")
  ELSE [rec EXCEPT !.pc = "cr_find",
          !.data = CacheStamp(IF rec.is_lb THEN Merge(d, [isLbPlayer |-> TRUE])
                              ELSE d, t)]

\* refresh_club_players leaving the roster after its first player
AfterPlayerSleep_LeaveRoster(rec) == NextClub(rec)

\* refresh_club_players lines 135-139 after the sleep that follows a player
AfterPlayerSleep(rec) ==
  IF rec.pi < Len(rec.roster)
  THEN [rec EXCEPT !.pi = @ + 1, !.pc = "cached_read", !.result = "pending"]
  ELSE NextClub(rec)

\* ------------------------------------------------------------------ Init
\* the host after startup_db_client: Database.client is connected;
\* enabled is settings.BG_REFRESH_ENABLED (True unless the environment sets it)
HostUp == [pc |-> "up", client |-> "open", enabled |-> TRUE, awaited |-> 0]

\* the host once its modules are loaded: the settings are read, the service
\* object exists, Database.client is None
HostLoaded(enabled) ==
  [pc |-> "loaded", client |-> "none", enabled |-> enabled, awaited |-> 0]

Init ==
  /\ now = 0
  /\ store = [c \in Stores |-> <<>>]
  /\ req = IdleReq
  /\ supplied = NoneSupplied
  /\ call = NoCall
  /\ is_running = FALSE
  /\ task = 0
  /\ tk = [t \in TaskIds |-> FreshTask]
  /\ stopWait = {}
  /\ drained = {}
  /\ faults = 0
  /\ host = HostUp

schedVars == <<is_running, task, tk, stopWait, drained, faults>>

Tick ==
  /\ now < MaxTime
  /\ now' = now + 1
  /\ UNCHANGED <<host, store, req, supplied, call, schedVars>>

\* a caller evaluates is_cache_expired(data)
Expired ==
  /\ AllSuspended
  /\ \E data \in ExpiryInputs :
       call' = [op |-> "is_cache_expired", pc |-> "done", data |-> data,
                at |-> now, ret |-> is_cache_expired(data, now)]
  /\ UNCHANGED <<host, now, store, req, supplied, schedVars>>

\* a long time passes: more than the expiration window
LongWait ==
  /\ now <= MaxTime
  /\ now' = now + ExpirationWindow + 1
  /\ UNCHANGED <<host, store, req, supplied, call, schedVars>>

CallIdle == call.pc = "done"

\* a caller awaits get_cached_response(c, id)
GetCached ==
  /\ AllSuspended /\ CallIdle
  /\ \E id \in PlayerIds :
       LET r == get_cached_response(store["players"], id)
       IN call' = [op |-> "get_cached_response", pc |-> "done",
                   coll |-> "players", id |-> id,
                   ret |-> r.ret, raised |-> r.raised]
  /\ UNCHANGED <<host, now, store, req, supplied, schedVars>>

\* the filters and documents given to find_or_create: those of
\* ensure_partner_from_agent (the document carries the filter's name) and
\* documents that do not match the filter
PartnerQueries == {[name |-> n] : n \in Names}
AgentUrls == {"/agent/1", "/agent/2"}
PartnerDocs ==
  {[name |-> n, transfermarktUrl |-> u, notes |-> ""] : n \in Names, u \in AgentUrls}

\* a caller awaits Database.find_or_create("partners", query, document): up
\* to the await of find_one, line 89.  n0 is the number of matching records
\* when the first of a run of calls with this query and document was made,
\* nth the position of the call in that run (2 for any later one).
FocCall ==
  /\ AllSuspended /\ CallIdle
  /\ Len(store["partners"]) < MaxPartners
  /\ \E q \in PartnerQueries, d \in PartnerDocs :
       LET again == IF call.op = "find_or_create"
                    THEN call.query = q /\ call.doc = d ELSE FALSE
       IN call' = [op |-> "find_or_create", pc |-> "find", coll |-> "partners",
                   query |-> q, doc |-> d, ret |-> NoDoc, at |-> 0,
                   n0 |-> IF again THEN call.n0
                          ELSE Cardinality(MatchIdx(store["partners"], q)),
                   nth |-> IF again THEN 2 ELSE 1]
  /\ UNCHANGED <<host, now, store, req, supplied, schedVars>>

\* find_one answers: lines 89-93
FocFind ==
  /\ AllSuspended
  /\ call.op = "find_or_create" /\ call.pc = "find"
  /\ call' = FocAnswered(call, Database_find_one_by(store[call.coll], call.query), now)
  /\ UNCHANGED <<host, now, store, req, supplied, schedVars>>

\* insert_one lands with the createdAt it was given: line 93, up to the
\* await of the second find_one
FocInsert ==
  /\ AllSuspended
  /\ call.op = "find_or_create" /\ call.pc = "insert"
  /\ store' = [store EXCEPT ![call.coll] = Database_insert_one(@, call.doc, call.at)]
  /\ call' = [call EXCEPT !.pc = "readback"]
  /\ UNCHANGED <<host, now, req, supplied, schedVars>>

\* the partner endpoint is called: register_partner, partners.py lines
\* 23-34, up to the awaited write of Database.insert_one (no lookup comes
\* before it); PartnerOut is made of the data when the write has landed
RpCall ==
  /\ AllSuspended /\ CallIdle
  /\ Len(store["partners"]) < MaxPartners
  /\ \E d \in PartnerRequests :
       call' = [op |-> "register_partner", pc |-> "insert", coll |-> "partners",
                query |-> EmptyDoc, doc |-> d, ret |-> NoDoc, at |-> now,
                n0 |-> 0, nth |-> 1]
  /\ UNCHANGED <<host, now, store, req, supplied, schedVars>>

\* the write lands: partners.py lines 35-36
RpInsert ==
  /\ AllSuspended
  /\ call.op = "register_partner" /\ call.pc = "insert"
  /\ store' = [store EXCEPT ![call.coll] = Database_insert_one(@, call.doc, call.at)]
  /\ call' = [call EXCEPT !.pc = "done",
                !.ret = [id |-> StrOf(Len(store[call.coll]) + 1),
                         name |-> call.doc["name"], notes |-> call.doc["notes"],
                         transfermarktUrl |->
                           IF Has(call.doc, "transfermarktUrl")
                           THEN call.doc["transfermarktUrl"] ELSE NoDoc]]
  /\ UNCHANGED <<host, now, req, supplied, schedVars>>

\* the second find_one answers and is returned: line 94
FocReadBack ==
  /\ AllSuspended
  /\ call.op = "find_or_create" /\ call.pc = "readback"
  /\ call' = [call EXCEPT !.pc = "done",
                          !.ret = Database_find_one_by(store[call.coll], call.query)]
  /\ UNCHANGED <<host, now, store, req, supplied, schedVars>>

\* a caller awaits Database.find_all(c, query, limit, skip) on the
\* collection find_or_create fills; a query of None is the empty filter
FindAll ==
  /\ AllSuspended /\ CallIdle
  /\ \E c \in {"partners"}, q \in PartnerQueries \cup {EmptyDoc},
        limit \in 0..MaxWindow, skip \in 0..MaxWindow :
       call' = [op |-> "find_all", pc |-> "done", coll |-> c, query |-> q,
                limit |-> limit, skip |-> skip,
                ret |-> Database_find_all(store[c], q, limit, skip)]
  /\ UNCHANGED <<host, now, store, req, supplied, schedVars>>

\* a caller awaits CacheService.get_all_cached_responses(c, limit, skip)
GetAll ==
  /\ AllSuspended /\ CallIdle
  /\ \E c \in {"partners"}, limit \in 0..MaxWindow, skip \in 0..MaxWindow :
       call' = [op |-> "get_all_cached_responses", pc |-> "done", coll |-> c,
                query |-> EmptyDoc, limit |-> limit, skip |-> skip,
                ret |-> get_all_cached_responses(store[c], limit, skip)]
  /\ UNCHANGED <<host, now, store, req, supplied, schedVars>>

\* smart search lists the cached players: smart_search.py line 15
ListPlayers ==
  /\ AllSuspended /\ CallIdle
  /\ call' = [op |-> "get_all_cached_responses", pc |-> "done",
              coll |-> "players", query |-> EmptyDoc, limit |-> 0, skip |-> 0,
              ret |-> get_all_cached_responses(store["players"], 0, 0)]
  /\ UNCHANGED <<host, now, store, req, supplied, schedVars>>

\* the cache statistics count a collection: cache.py line 34
CountCached ==
  /\ AllSuspended /\ CallIdle
  /\ \E c \in Collections :
       call' = [op |-> "count_cached_responses", pc |-> "done", coll |-> c,
                ret |-> count_cached_responses(store[c], EmptyDoc)]
  /\ UNCHANGED <<host, now, store, req, supplied, schedVars>>

\* the profile endpoint is called: get_player_profile up to the await of
\* get_cached_response, line 171
GpCall ==
  /\ AllSuspended /\ CallIdle
  /\ \E id \in PlayerIds :
       call' = [HandleBegin("players", id) EXCEPT !.op = "get_player_profile"]
  /\ UNCHANGED <<host, now, store, req, supplied, schedVars>>

\* get_cached_response answers: lines 171-184, up to a return, a raise or
\* the next await
GpLookup ==
  /\ AllSuspended
  /\ call.op = "get_player_profile" /\ call.pc = "lookup"
  /\ LET cached == get_cached_response(store["players"], call.id).ret IN
     \E out \in {"raise", "none", "data"} :
       \E d \in IF out = "data" THEN AgentProfiles(call.id) ELSE {NoDoc} :
          call' = ProfileLookedUp(call, cached, out, d, now)
  /\ UNCHANGED <<host, now, store, req, supplied, schedVars>>

\* the registration endpoint is called: register_player, players.py lines
\* 47-64, up to a raise or the first await
RgCall(ids, agents) ==
  /\ AllSuspended /\ CallIdle
  /\ \E id \in ids, r \in Registrations, out \in {"raise", "none", "data"} :
       \E d \in IF out = "data" THEN RegisterProfiles(id, agents) ELSE {NoDoc} :
          call' = RegisterFetched(
                    [HandleBegin("players", id) EXCEPT
                       !.op = "register_player", !.data = r], out, d, now)
  /\ UNCHANGED <<host, now, store, req, supplied, schedVars>>

\* ensure_partner_from_agent inside get_player_profile and register_player:
\* the three awaits of find_or_create("partners", {"name": ...},
\* partner_data), where insert_one stamps createdAt in the step in which the
\* lookup answered (database.py line 73); then get_player_profile lines
\* 185-188, or register_player lines 65-75, up to the await of
\* cache_response's find_one
GpPartner ==
  /\ AllSuspended
  /\ call.op \in {"get_player_profile", "register_player"}
  /\ call.pc \in {"ep_find", "ep_insert", "ep_back"}
  /\ LET d == call.resp.doc
         found == Database_find_one_by(store["partners"], [name |-> d["agent"]["name"]])
     IN IF call.pc = "ep_find" /\ found = NoDoc
        THEN /\ call' = [call EXCEPT !.pc = "ep_insert",
                           !.w = [kind |-> "insert", doc |-> PartnerOf(d), at |-> now]]
             /\ store' = store
        ELSE IF call.pc = "ep_insert"
        THEN /\ call' = [call EXCEPT !.pc = "ep_back", !.w = NoWrite]
             /\ store' = [store EXCEPT !["partners"] = CacheApply(@, call.w)]
        ELSE /\ call' = IF call.op = "register_player"
                        THEN Registered(call, d, now)
                        ELSE ProfileCached(call, d, now)
             /\ store' = store
  /\ UNCHANGED <<host, now, req, supplied, schedVars>>

\* at most MaxSites of the collections that the handlers of the
\* get_club_profile shape fill hold a record
SitesFilled == {hd.coll : hd \in {x \in Handlers : store[x.coll] # <<>>}}

\* an endpoint of the get_club_profile shape is called, up to the await of
\* get_cached_response: clubs.py lines 23-25 and 43-48, competitions.py
\* lines 22-28, players.py lines 234-236 to 407-409
EhCall(hs) ==
  /\ AllSuspended /\ CallIdle
  /\ \E hd \in hs : \E id \in HandlerIds(hd), x \in KeyArgs(hd) :
       /\ Cardinality(SitesFilled \cup {hd.coll}) <= MaxSites
       /\ call' = [HandleBegin(hd.coll, id) EXCEPT
                     !.op = hd.op, !.key = CacheKey(id, x)]
  /\ UNCHANGED <<host, now, store, req, supplied, schedVars>>

\* get_cached_response answers: up to a return, a raise or the await of
\* cache_response's find_one
EhLookup ==
  /\ AllSuspended
  /\ call.op \in {hd.op : hd \in Handlers} /\ call.pc = "lookup"
  /\ LET hd == HandlerOf(call.op)
         cached == get_cached_response(store[call.coll], call.key).ret IN
     \E out \in {"raise", "none", "data"} :
       \E d \in IF out = "data" THEN HandlerDocs(hd, call.id) ELSE {NoDoc} :
          call' = ExpiryLookedUp(call, hd.checks, cached, out, d, now)
  /\ UNCHANGED <<host, now, store, req, supplied, schedVars>>

\* a caller awaits handle_request(c, id, fetch_function): line 151
HrCall ==
  /\ AllSuspended /\ CallIdle
  /\ \E id \in PlayerIds : call' = HandleBegin("players", id)
  /\ UNCHANGED <<host, now, store, req, supplied, schedVars>>

\* the lookup answers: lines 153-171 up to the return or the await of
\* cache_response's find_one
HrLookup ==
  /\ AllSuspended
  /\ call.op = "handle_request" /\ call.pc = "lookup"
  /\ LET cached == get_cached_response(store[call.coll], call.id).ret
     IN \E resp \in IF cached # NoDoc THEN {NoResp} ELSE FetchResults(call.id) :
          call' = HandleAnswered(call, cached, resp, now)
  /\ UNCHANGED <<host, now, store, req, supplied, schedVars>>

\* the second caller awaits cache_response(c, doc) on its own: line 110,
\* then the await of find_one (overlap: the call was made while the first
\* caller's lookup was pending)
CrCall(c, doc) ==
  /\ AllSuspended /\ CallIdle
  /\ call' = [HandleBegin(c, doc["id"]) EXCEPT
                 !.op = "cache_response", !.pc = "cr_find",
                 !.data = CacheStamp(doc, now),
                 !.overlap = (req.pc = "find")]
  /\ supplied' = Supply(supplied, c, doc)
  /\ UNCHANGED <<host, now, store, req, schedVars>>

\* the ids of the cache_response calls that have not returned
InFlightIds ==
  (IF req.pc # "idle" THEN {req.data["id"]} ELSE {})
  \cup (IF call.pc \in {"cr_find", "cr_write"} THEN {call.data["id"]} ELSE {})

\* cache_response line 113 answers the second caller
HrFind ==
  /\ AllSuspended
  /\ call.pc = "cr_find"
  /\ call' = [call EXCEPT !.pc = "cr_write",
                 !.w = CachePrepare(Database_find_one(store[call.coll], call.data["id"]),
                                    call.data, now)]
  /\ UNCHANGED <<host, now, store, req, supplied, schedVars>>

\* the write reaches the store and the second caller's call returns
HrWrite ==
  /\ AllSuspended
  /\ call.pc = "cr_write"
  /\ store' = [store EXCEPT ![call.coll] = CacheApply(@, call.w)]
  /\ call' = [call EXCEPT !.pc = "done", !.ret = Returned(call, store[call.coll])]
  /\ UNCHANGED <<host, now, req, supplied, schedVars>>

\* ------------------------------- request path: CacheService.cache_response
\* a handler calls cache_response(c, doc): line 110, then awaits find_one
ReqCall(c, doc) ==
  /\ AllSuspended
  /\ req.pc = "idle"
  /\ req' = [pc |-> "find", coll |-> c, data |-> CacheStamp(doc, now),
             w |-> NoWrite, t0 |-> now]
  /\ supplied' = Supply(supplied, c, doc)
  /\ UNCHANGED <<host, now, store, call, schedVars>>

\* find_one answers: lines 113-127 up to the awaited write
ReqFind ==
  /\ AllSuspended
  /\ req.pc = "find"
  /\ req' = [req EXCEPT !.pc = "write",
               !.w = CachePrepare(Database_find_one(store[req.coll], req.data["id"]),
                                  req.data, now)]
  /\ UNCHANGED <<host, now, store, supplied, call, schedVars>>

\* the write reaches the store and cache_response returns
ReqWrite ==
  /\ AllSuspended
  /\ req.pc = "write"
  /\ store' = [store EXCEPT ![req.coll] = CacheApply(@, req.w)]
  /\ req' = IdleReq
  /\ UNCHANGED <<host, now, supplied, call, schedVars>>

ReqPlayer == \E doc \in PlayerDocs : ReqCall("players", doc)

\* the same call with a document of one payload field
ReqPartial == \E doc \in PartialDocs : ReqCall("players", doc)

\* the same call with a payload document that may carry timestamps
ReqFresh == \E doc \in FreshDocs : ReqCall("players", doc)

\* the same call with a document that carries an updatedAt of the caller's
ReqStamped == \E doc \in StampedDocs : ReqCall("players", doc)

\* two callers of cache_response, never on the same id at the same time
ReqOther ==
  \E doc \in PartialDocs : doc["id"] \notin InFlightIds /\ ReqCall("players", doc)

CrOther ==
  \E doc \in PartialDocs : doc["id"] \notin InFlightIds /\ CrCall("players", doc)

\* both callers on any id, the one of the other caller included
ReqNamed ==
  \E p \in PlayerIds : \E n \in Names : ReqCall("players", [id |-> p, name |-> n])

CrNamed ==
  \E p \in PlayerIds : \E n \in Names : CrCall("players", [id |-> p, name |-> n])

\* ------------------------------------------- BackgroundRefreshService API
FreeTasks == {t \in TaskIds : tk[t].st = "unspawned"}

\* start() without the is_running check of lines 33-35
Start_NoCheck ==
  /\ AllSuspended
  /\ FreeTasks # {}
  /\ LET t == CHOOSE x \in FreeTasks : \A y \in FreeTasks : x <= y IN
       /\ is_running' = TRUE
       /\ task' = t
       /\ tk' = [tk EXCEPT ![t].st = "live"]
  /\ UNCHANGED <<host, now, store, req, supplied, call, stopWait, drained, faults>>

\* start(), lines 31-39 (no await inside: one step)
Start ==
  /\ AllSuspended
  /\ is_running \/ FreeTasks # {}
  /\ IF is_running
     THEN UNCHANGED <<is_running, task, tk>>
     ELSE LET t == CHOOSE x \in FreeTasks : \A y \in FreeTasks : x <= y IN
          /\ is_running' = TRUE
          /\ task' = t
          /\ tk' = [tk EXCEPT ![t].st = "live"]
  /\ UNCHANGED <<host, now, store, req, supplied, call, stopWait, drained, faults>>

\* task.cancel(): a task that is not done will get CancelledError
Cancel(rec) == IF rec.st = "live" THEN [rec EXCEPT !.st = "cancelled"] ELSE rec

\* stop(), lines 41-50: up to the return of line 44 or the await of line 50
StopCall ==
  /\ AllSuspended
  /\ IF ~is_running
     THEN /\ UNCHANGED <<is_running, task, tk, stopWait>>
          /\ drained' = IF task = 0 THEN drained ELSE drained \cup {task}
     ELSE /\ is_running' = FALSE
          /\ tk' = IF task = 0 THEN tk ELSE [tk EXCEPT ![task] = Cancel(@)]
          /\ stopWait' = IF task = 0 THEN stopWait ELSE stopWait \cup {task}
          /\ UNCHANGED <<task, drained>>
  /\ UNCHANGED <<host, now, store, req, supplied, call, faults>>

\* stop(), lines 50-53: the awaited task is done, CancelledError is dropped
StopReturn ==
  \E t \in stopWait :
    /\ AllSuspended
    /\ tk[t].st = "done"
    /\ stopWait' = stopWait \ {t}
    /\ drained' = drained \cup {t}
    /\ UNCHANGED <<host, now, store, req, supplied, call, is_running, task, tk, faults>>

\* ------------------------------------------------------ the host's hooks
\* startup_db_client, lines 39-45: connect_to_mongodb() sets Database.client
\* without suspending; the call of start() at line 44 is commented out, so
\* the hook ends there whatever settings.BG_REFRESH_ENABLED holds
Startup ==
  /\ host.pc = "loaded"
  /\ host' = [host EXCEPT !.pc = "up", !.client = "open"]
  /\ UNCHANGED <<now, store, req, supplied, call, schedVars>>

\* shutdown_db_client closing the store whether or not stop() has returned
ShutdownAwait_CloseFirst(waiting) ==
  [pc |-> IF waiting THEN "stop_wait" ELSE "down", client |-> "closed"]

\* shutdown_db_client, lines 51-54: 'await background_refresh_service.stop()'
\* keeps the hook suspended while stop() waits for the loop task; once
\* stop() has returned the hook runs on to Database.client.close()
ShutdownAwait(waiting) ==
  IF waiting THEN [pc |-> "stop_wait", client |-> "open"]
  ELSE [pc |-> "down", client |-> "closed"]

\* the task the hook's stop() is suspended on: the one it cancelled at line
\* 48, whatever self.task holds later
Awaiting(waiting, t) == [awaited |-> IF waiting THEN t ELSE 0]

\* shutdown_db_client is called: stop() runs to its return of line 44, or
\* to 'await self.task' of line 50 (a finished task does not suspend it)
ShutdownCall ==
  /\ AllSuspended
  /\ host.pc = "up"
  /\ IF ~is_running
     THEN /\ host' = Merge(host, ShutdownAwait(FALSE))
          /\ UNCHANGED <<is_running, tk>>
     ELSE LET waiting == task # 0 /\ tk[task].st # "done" IN
          /\ is_running' = FALSE
          /\ tk' = IF task = 0 THEN tk ELSE [tk EXCEPT ![task] = Cancel(@)]
          /\ host' = Merge(Merge(host, ShutdownAwait(waiting)),
                           Awaiting(waiting, task))
  /\ UNCHANGED <<now, store, req, supplied, call, task, stopWait, drained, faults>>

\* the loop task the hook's stop() cancelled is done: stop() returns and the
\* hook closes the store, whether or not start() has made another task since
ShutdownReturn ==
  /\ AllSuspended
  /\ host.pc = "stop_wait"
  /\ tk[host.awaited].st = "done"
  /\ host' = Merge(Merge(host, ShutdownAwait(FALSE)), Awaiting(FALSE, 0))
  /\ UNCHANGED <<now, store, req, supplied, call, is_running, task, tk,
                 stopWait, drained, faults>>

\* ------------------------------------------------ refresh_loop task steps
\* what a provider call or a store call can do: fail (while failures are
\* left to raise), or answer
MayFail(ok) == ok \/ faults < MaxFaults
Failing(ok) == IF ok THEN faults ELSE faults + 1

TaskOnly(t, rec, ok) ==
  /\ MayFail(ok)
  /\ tk' = [tk EXCEPT ![t] = rec]
  /\ faults' = Failing(ok)
  /\ UNCHANGED <<host, now, store, req, supplied, call, is_running, task, stopWait, drained>>

\* first run of the coroutine: line 57
TBegin(t) ==
  /\ Runnable(t) /\ tk[t].pc = "spawned"
  /\ TaskOnly(t, LoopHead(tk[t], is_running), TRUE)

\* line 90 answers (or the store fails)
TClubsRead(t) ==
  /\ Runnable(t) /\ tk[t].pc = "clubs_read"
  /\ \E ok \in BOOLEAN :
       TaskOnly(t, IF ok
                   THEN ClubsFound(tk[t], SubSeqTo(store["clubs"], ClubsListLength))
                   ELSE Raise(tk[t], "Exception"), ok)

\* lines 104-105: the blocking seed query
TSeedCall(t) ==
  /\ Runnable(t) /\ tk[t].pc = "seed_call"
  /\ \E out \in {"ok", "empty", "raise"} :
       TaskOnly(t, Seeded(Called(tk[t]), out), out # "raise")

\* line 112: the sleep after a seed query ends
TSeedSleep(t) ==
  /\ Runnable(t) /\ tk[t].pc = "seed_sleep"
  /\ TaskOnly(t, AfterSeedSleep(Delayed(tk[t])), TRUE)

\* lines 121-122: the blocking roster fetch of club clubs[ci]
TRosterCall(t) ==
  /\ Runnable(t) /\ tk[t].pc = "roster_call"
  /\ \E out \in {"ok", "empty", "raise"} :
       TaskOnly(t, RosterFetched(Called([tk[t] EXCEPT !.nC = @ + 1]), out),
                out # "raise")

\* line 125: the sleep after the roster fetch ends
TRosterSleep(t) ==
  /\ Runnable(t) /\ tk[t].pc = "roster_sleep"
  /\ TaskOnly(t, AfterRosterSleep(Delayed(tk[t])), TRUE)

\* line 147 answers (or the store fails)
TCachedRead(t) ==
  /\ Runnable(t) /\ tk[t].pc = "cached_read"
  /\ \E ok \in BOOLEAN :
       TaskOnly(t, IF ok
                   THEN CachedRead(tk[t], Database_find_one(store["players"],
                                             tk[t].roster[tk[t].pi]))
                   ELSE Raise(tk[t], "Exception"), ok)

\* lines 151-152: the blocking profile fetch, then lines 154-166 and
\* cache_response line 110
TProfileCall(t, shapes) ==
  /\ Runnable(t) /\ tk[t].pc = "profile_call"
  /\ \E out \in {"raise", "none", "data"} :
       \E d \in IF out = "data" THEN Profiles(tk[t].roster[tk[t].pi], shapes)
                ELSE {NoDoc} :
          TaskOnly(t, Fetched(Called(tk[t]), out, d, now), out # "raise")

\* cache_response line 113 answers (or the store fails)
TCrFind(t) ==
  /\ Runnable(t) /\ tk[t].pc = "cr_find"
  /\ \E ok \in BOOLEAN :
       TaskOnly(t, IF ok
                   THEN [tk[t] EXCEPT !.pc = "cr_write",
                           !.w = CachePrepare(
                                   Database_find_one(store["players"], tk[t].data["id"]),
                                   tk[t].data, now)]
                   ELSE Raise(tk[t], "Exception"), ok)

\* the write of cache_response reaches the store (or the store fails)
TCrWrite(t) ==
  /\ Runnable(t) /\ tk[t].pc = "cr_write"
  /\ \E ok \in BOOLEAN :
       /\ MayFail(ok)
       /\ faults' = Failing(ok)
       /\ tk' = [tk EXCEPT ![t] = IF ok THEN AfterPlayer(tk[t], "written")
                                  ELSE Raise(tk[t], "Exception")]
       /\ store' = IF ok THEN [store EXCEPT !["players"] = CacheApply(@, tk[t].w)]
                   ELSE store
  /\ UNCHANGED <<host, now, req, supplied, call, is_running, task, stopWait, drained>>

\* line 139: the sleep after a player ends
TPlayerSleep(t) ==
  /\ Runnable(t) /\ tk[t].pc = "player_sleep"
  /\ TaskOnly(t, AfterPlayerSleep(Delayed(tk[t])), TRUE)

\* line 66: sleep(60) ends, back to line 57
TCycleSleep(t) ==
  /\ Runnable(t) /\ tk[t].pc = "cycle_sleep"
  /\ TaskOnly(t, LoopHead([tk[t] EXCEPT !.paced = TRUE], is_running), TRUE)

\* a cancelled task is resumed with CancelledError at its await; a write it
\* was awaiting may or may not have reached the store
TCancelled(t) ==
  /\ tk[t].st = "cancelled"
  /\ \A u \in TaskIds \ {t} : Suspended(u)
  /\ tk' = [tk EXCEPT ![t] = Raise(tk[t], "Cancelled")]
  /\ \E landed \in BOOLEAN :
       store' = IF landed /\ tk[t].pc = "cr_write"
                THEN [store EXCEPT !["players"] = CacheApply(@, tk[t].w)]
                ELSE store
  /\ UNCHANGED <<host, now, req, supplied, call, is_running, task, stopWait, drained, faults>>

TaskStep(shapes) ==
  \E t \in TaskIds :
    \/ TBegin(t) \/ TClubsRead(t) \/ TSeedCall(t) \/ TSeedSleep(t)
    \/ TRosterCall(t) \/ TRosterSleep(t) \/ TCachedRead(t)
    \/ TProfileCall(t, shapes)
    \/ TCrFind(t) \/ TCrWrite(t) \/ TPlayerSleep(t) \/ TCycleSleep(t)

\* --------------------------------------------------------- specifications
\* sequential cache_response calls of the request path, the service stopped
NextCache == Tick \/ ReqPlayer \/ ReqFind \/ ReqWrite
SpecCache == Init /\ [][NextCache]_vars

\* one refresh_loop task crawling over players that register_player has
\* cached: the registrations are requested before the service is started
\* and their steps run beside the crawl
NextSched ==
  \/ Start \/ TaskStep({"plain", "flagged"})
  \/ (~is_running /\ RgCall(PlayerIds, {LB_AGENCY})) \/ GpPartner \/ HrFind \/ HrWrite
SpecSched == Init /\ [][NextSched]_vars

\* one refresh_loop task crawling while time passes
NextRefresh == Tick \/ Start \/ TaskStep({"plain", "flagged"})
SpecRefresh == Init /\ [][NextRefresh]_vars

\* one refresh_loop task crawling while get_club_profile caches clubs
NextPace ==
  \/ Start \/ TaskStep({"plain"})
  \/ EhCall(ClubProfileHandler) \/ EhLookup \/ HrFind \/ HrWrite
SpecPace == Init /\ [][NextPace]_vars

\* sequential cache_response calls whose documents may carry timestamps
NextStamp == Tick \/ ReqStamped \/ ReqFind \/ ReqWrite
SpecStamp == Init /\ [][NextStamp]_vars

\* sequential cache_response calls with payload documents and with documents
\* that carry timestamps
NextFresh == Tick \/ ReqFresh \/ ReqFind \/ ReqWrite
SpecFresh == Init /\ [][NextFresh]_vars

\* sequential cache_response calls, each supplying one payload field
NextMerge == Tick \/ ReqPartial \/ ReqFind \/ ReqWrite
SpecMerge == Init /\ [][NextMerge]_vars

\* handle_request and get_cached_response called one after the other on
\* a store that register_player fills, as time passes
NextHandle ==
  \/ Tick \/ LongWait
  \/ RgCall(PlayerIds, {LB_AGENCY}) \/ GpPartner
  \/ GetCached \/ HrCall \/ HrLookup \/ HrFind \/ HrWrite
SpecHandle == Init /\ [][NextHandle]_vars

\* two concurrent callers of cache_response on different ids
NextDisjoint == ReqOther \/ ReqFind \/ ReqWrite \/ CrOther \/ HrFind \/ HrWrite
SpecDisjoint == Init /\ [][NextDisjoint]_vars

\* two concurrent callers of cache_response on any ids
NextRace == ReqNamed \/ ReqFind \/ ReqWrite \/ CrNamed \/ HrFind \/ HrWrite
SpecRace == Init /\ [][NextRace]_vars

\* is_cache_expired evaluated on records of every shape as time passes
NextExpiry == Tick \/ Expired
SpecExpiry == Init /\ [][NextExpiry]_vars

\* start() and stop() called in any order around the crawl
NextLife ==
  \/ Start \/ StopCall \/ StopReturn
  \/ TaskStep({"plain"}) \/ (\E t \in TaskIds : TCancelled(t))
SpecLife == Init /\ [][NextLife]_vars

\* find_or_create and register_partner called one after the other on
\* "partners", as time passes
NextPartner ==
  \/ Tick \/ FocCall \/ FocFind \/ FocInsert \/ FocReadBack
  \/ RpCall \/ RpInsert
SpecPartner == Init /\ [][NextPartner]_vars

\* find_all and get_all_cached_responses between find_or_create calls
NextPage ==
  \/ FocCall \/ FocFind \/ FocInsert \/ FocReadBack
  \/ FindAll \/ GetAll
SpecPage == Init /\ [][NextPage]_vars

\* a request-path caller making one cache operation after another beside a
\* crawl that the host's shutdown cancels
NextKeep ==
  \/ GetCached \/ HrCall \/ HrLookup \/ HrFind \/ HrWrite
  \/ ListPlayers \/ CountCached
  \/ (host.pc = "up" /\ Start)
  \/ TaskStep({"plain"}) \/ (\E t \in TaskIds : TCancelled(t))
  \/ ShutdownCall \/ ShutdownReturn
SpecKeep == Init /\ [][NextKeep]_vars

\* the profile endpoint called again and again while time passes
NextSticky ==
  \/ Tick \/ LongWait
  \/ GpCall \/ GpLookup \/ GpPartner \/ HrFind \/ HrWrite
SpecSticky == Init /\ [][NextSticky]_vars

\* one refresh_loop task crawling while register_player caches the player
\* that is on both rosters, the steps of the two interleaved in every way
NextInterleave ==
  \/ Start \/ TaskStep({"plain"})
  \/ RgCall({"p2"}, {LB_AGENCY}) \/ GpPartner \/ HrFind \/ HrWrite
SpecInterleave == Init /\ [][NextInterleave]_vars

\* the handlers that cache a response, called one after the other, with
\* long waits between calls
NextExpire ==
  \/ (CallIdle /\ LongWait)
  \/ GpCall \/ GpLookup \/ GpPartner
  \/ EhCall(Handlers) \/ EhLookup
  \/ HrFind \/ HrWrite
SpecExpire == Init /\ [][NextExpire]_vars

\* the host from the load of its modules: the startup hook, the request
\* path while it is up, the shutdown hook
InitHost ==
  /\ now = 0
  /\ store = [c \in Stores |-> <<>>]
  /\ req = IdleReq
  /\ supplied = NoneSupplied
  /\ call = NoCall
  /\ is_running = FALSE
  /\ task = 0
  /\ tk = [t \in TaskIds |-> FreshTask]
  /\ stopWait = {}
  /\ drained = {}
  /\ faults = 0
  /\ \E enabled \in BOOLEAN : host = HostLoaded(enabled)

NextHost ==
  \/ Startup
  \/ (host.pc = "up" /\ Tick)
  \/ (host.pc = "up" /\ RgCall(PlayerIds, {LB_AGENCY}))
  \/ (host.pc = "up" /\ GpPartner)
  \/ (host.pc = "up" /\ EhCall(ClubProfileHandler))
  \/ (host.pc = "up" /\ EhLookup)
  \/ (host.pc = "up" /\ HrFind)
  \/ (host.pc = "up" /\ HrWrite)
  \/ ShutdownCall
SpecHost == InitHost /\ [][NextHost]_vars

\* the host: start() called while the host is up, then shutdown_db_client,
\* the only caller of stop()
NextShutdown ==
  \/ (host.pc = "up" /\ Start)
  \/ TaskStep({"plain"}) \/ (\E t \in TaskIds : TCancelled(t))
  \/ ShutdownCall \/ ShutdownReturn
SpecShutdown == Init /\ [][NextShutdown]_vars

\* the same host under a fair event loop: a coroutine that can run is run,
\* every sleep ends and every blocking provider call returns.  The store and
\* the provider fail at most MaxFaults times, then always respond.
SpecRecur == Init /\ [][NextShutdown]_vars /\ WF_vars(TaskStep({"plain"}))

\* the clubs collection as get_club_profile has filled it over time: n
\* records with distinct ids, in insertion order
BulkClubs(n) ==
  [i \in 1..n |-> [id |-> "c" \o ToString(i), name |-> "c" \o ToString(i),
                   updatedAt |-> 0, createdAt |-> 0, _id |-> i]]

\* collection sizes below, at and above the length given to to_list
BulkSizes ==
  0..8 \cup {ClubsListLength - 1, ClubsListLength, ClubsListLength + 1}

InitBulk ==
  /\ now = 0
  /\ \E n \in BulkSizes :
       store = [c \in Stores |-> IF c = "clubs" THEN BulkClubs(n) ELSE <<>>]
  /\ req = IdleReq
  /\ supplied = NoneSupplied
  /\ call = NoCall
  /\ is_running = FALSE
  /\ task = 0
  /\ tk = [t \in TaskIds |-> FreshTask]
  /\ stopWait = {}
  /\ drained = {}
  /\ faults = 0
  /\ host = HostUp

\* the discovery step of a cycle over clubs collections of all these sizes:
\* the loop is followed up to the answer of get_all_clubs' read, and again
\* from the inter-cycle delay of a cycle whose read failed
NextBulk ==
  \/ Tick
  \/ Start
  \/ (\E t \in TaskIds : TBegin(t))
  \/ (\E t \in TaskIds : TClubsRead(t))
  \/ (\E t \in TaskIds : TCycleSleep(t))
SpecBulk == InitBulk /\ [][NextBulk]_vars

\* ================================================================= claims
Ids == PlayerIds \cup ClubIds
RecordsOf(c, i) ==
  {k \in 1..Len(store[c]) : Has(store[c][k], "id") /\ store[c][k]["id"] = i}
Stored(c, i) == Database_find_one(store[c], i)
Live == {t \in TaskIds : tk[t].st \in {"live", "cancelled"}}

\* C1 -- Upsert idempotence on id: when no cache_response call is in flight,
\* after any sequence of sequential calls on a collection that started empty,
\* the collection holds exactly one record for each id supplied (and none
\* for any other id), and each supplied field of that record has the value
\* given by the last call that supplied it.
C1_UpsertIdempotent ==
  req.pc = "idle" =>
    \A c \in Collections : \A i \in Ids :
      IF SuppliedOf(supplied, c)[i] = NoDoc
      THEN RecordsOf(c, i) = {}
      ELSE /\ Cardinality(RecordsOf(c, i)) = 1
           /\ \A f \in DOMAIN SuppliedOf(supplied, c)[i] :
                Has(Stored(c, i), f) /\ Stored(c, i)[f] = SuppliedOf(supplied, c)[i][f]

\* C1 witness: an id cached at least twice (the record was updated after its
\* creation), holding name B from the last call and a flag from another one
C1_Witness ==
  /\ req.pc = "idle"
  /\ Cardinality(RecordsOf("players", "p1")) = 1
  /\ Len(store["players"]) = 2
  /\ Has(Stored("players", "p1"), "name") /\ Stored("players", "p1")["name"] = "B"
  /\ Has(Stored("players", "p1"), "isLbPlayer")
  /\ Stored("players", "p1")["createdAt"] < Stored("players", "p1")["updatedAt"]

\* C2 -- Sticky flag: whenever the refresh of a player whose cached record had
\* isLbPlayer = true when the Scheduler read it writes the fetched (non-empty)
\* profile, the record stored for that player after the write has
\* isLbPlayer = true, whether or not the profile carried the field.
C2_StickyFlag ==
  [][\A t \in TaskIds :
       (tk[t].st = "live" /\ tk[t].pc = "cr_write" /\ tk[t].is_lb
          /\ tk'[t].result = "written")
       => LET r == Database_find_one(store'["players"], tk[t].data["id"])
          IN Has(r, "isLbPlayer") /\ r["isLbPlayer"] = TRUE]_vars

\* C2 witness: a registered player (flag true) has just been refreshed from
\* the provider (name B comes from the provider only) and is still flagged
C2_Witness ==
  \E t \in TaskIds :
    /\ tk[t].st = "live" /\ tk[t].pc = "player_sleep" /\ tk[t].result = "written"
    /\ LET r == Stored("players", tk[t].roster[tk[t].pi])
       IN /\ Has(r, "isLbPlayer") /\ r["isLbPlayer"] = TRUE
          /\ r["name"] = "B"

\* C3 -- No overwrite on empty fetch: the steps of a player refresh in which
\* the provider returns none (the read of the cached record, the fetch
\* answering none) leave the store exactly as it was, and the refresh returns
\* at the fetch with no write issued.
C3_NoOverwriteOnEmpty ==
  [][\A t \in TaskIds :
       /\ (tk[t].st = "live" /\ tk[t].pc = "cached_read" /\ tk'[t] # tk[t])
            => store' = store
       /\ (tk[t].st = "live" /\ tk[t].pc = "profile_call"
             /\ tk'[t] = Fetched(Called(tk[t]), "none", NoDoc, now))
            => (store' = store /\ tk'[t].pc = "player_sleep"
                  /\ tk'[t].result = "skipped"
                  /\ tk'[t].w = NoWrite /\ tk'[t].data = NoDoc)]_vars

\* C3 witness: a refresh has just been skipped on an empty fetch while the
\* player's record, cached at an earlier time, is still in the store
C3_Witness ==
  \E t \in TaskIds :
    /\ tk[t].st = "live" /\ tk[t].pc = "player_sleep" /\ tk[t].result = "skipped"
    /\ Stored("players", tk[t].roster[tk[t].pi]) # NoDoc
    /\ Stored("players", tk[t].roster[tk[t].pi])["updatedAt"] < now

\* C4 -- No bursts: whenever the Scheduler is about to issue a provider call
\* (seed query, roster fetch or profile fetch), a complete delay has taken
\* place since its previous provider call, whatever that call's outcome.
C4_NoBursts ==
  \A t \in TaskIds :
    (tk[t].st = "live" /\ tk[t].pc \in {"seed_call", "roster_call", "profile_call"})
      => tk[t].paced

\* C5 -- Pacing bound: at the end of every refresh cycle that ran through,
\* having touched C clubs and P roster players, the Scheduler has issued
\* exactly C + P provider calls, plus one per seed league when the clubs
\* collection was empty, and completed at least C + P SCRAPE_DELAY waits.
C5_PacingBound ==
  \A t \in TaskIds :
    (tk[t].st = "live" /\ tk[t].pc = "cycle_sleep" /\ tk[t].outcome = "ok")
      => /\ tk[t].calls = tk[t].nC + tk[t].nP
                          + (IF tk[t].seeded THEN Len(popular_leagues) ELSE 0)
         /\ tk[t].delays >= tk[t].nC + tk[t].nP

\* C6 -- Single crawl: under any interleaving of start() and stop(), at most
\* one refresh_loop task is spawned and not yet exited.
C6_SingleCrawl == Cardinality(Live) <= 1

\* C7 -- Lifecycle no-ops: start() while is_running spawns nothing and leaves
\* the state and the task unchanged; stop() while not running cancels nothing
\* and leaves the state unchanged; start() while not running spawns exactly
\* one task, makes it self.task and sets is_running.
C7_LifecycleNoOps ==
  [][/\ (Start /\ is_running) => UNCHANGED <<is_running, task, tk, stopWait, store>>
     /\ (StopCall /\ ~is_running)
          => UNCHANGED <<is_running, task, tk, stopWait, store>>
     /\ (Start /\ ~is_running)
          => /\ is_running'
             /\ \E t \in TaskIds :
                  /\ tk[t].st = "unspawned"
                  /\ tk' = [tk EXCEPT ![t] = [FreshTask EXCEPT !.st = "live"]]
                  /\ task' = t]_vars

\* C7 witness: the service is running again after a complete stop: one task
\* has exited and exactly one is live
C7_Witness ==
  /\ is_running
  /\ stopWait = {}
  /\ \E t \in TaskIds : tk[t].st = "done"
  /\ Cardinality(Live) = 1
  /\ tk[task].st = "live" /\ tk[task].pc # "spawned"

\* C8 -- stop() drains: whenever a call to stop() made after a start() has
\* returned, the loop task spawned by that start() has exited.
C8_StopDrains == \A t \in drained : tk[t].st = "done"

\* C9 -- Cancellation and restart: a task cancelled by stop() at any
\* suspension point takes no further step of the cycle (its next step is its
\* exit, with no provider call and no new store read), and a task spawned by
\* a later start() begins at the loop head, its first step being the
\* discovery of the working set, with none of the old task's position.
C9_CancelRestart ==
  [][\A t \in TaskIds :
       /\ (tk[t].st = "cancelled" /\ tk'[t] # tk[t])
            => (tk'[t].st = "done" /\ tk'[t].exit = "cancelled")
       /\ (tk[t].st = "unspawned" /\ tk'[t].st # "unspawned")
            => tk'[t] = [FreshTask EXCEPT !.st = "live"]
       /\ (tk[t].st = "live" /\ tk[t].pc = "spawned" /\ tk'[t].st = "live"
             /\ tk'[t] # tk[t])
            => (tk'[t].pc = "clubs_read" /\ tk'[t].clubs = <<>>
                  /\ tk'[t].ci = 0 /\ tk'[t].pi = 0)]_vars

\* C9 witness: a task cancelled in mid-cycle has exited and the task of a
\* later start() is at the discovery of the working set
C9_Witness ==
  \E t, u \in TaskIds :
    /\ tk[t].st = "done" /\ tk[t].exit = "cancelled" /\ tk[t].mid
    /\ tk[u].st = "live" /\ tk[u].pc = "clubs_read"

\* C10 -- The background task never dies on its own: no failure raised inside
\* a cycle ends the loop task; a task that has exited was ended by stop()
\* (cancelled, or its loop left because is_running was cleared).
C10_NeverDies ==
  \A t \in TaskIds :
    tk[t].st = "done" => tk[t].exit \in {"cancelled", "returned"}

\* C10 witness: a failure ended a cycle and the task is alive, at sleep(60)
C10_Witness ==
  /\ faults > 0
  /\ \E t \in TaskIds :
       tk[t].st = "live" /\ tk[t].pc = "cycle_sleep" /\ tk[t].outcome = "failed"

\* C11 -- updatedAt monotonicity: across sequential cache_response calls under
\* a non-decreasing clock, the updatedAt stored for an id never decreases, and
\* when a call returns the stored updatedAt is at least the clock value
\* observed when the call was made, whatever updatedAt its document carried.
C11_UpdatedAtMonotone ==
  [][/\ \A c \in Collections : \A i \in Ids :
          Stored(c, i) # NoDoc
            => LET r == Database_find_one(store'[c], i)
               IN r # NoDoc /\ r["updatedAt"] >= Stored(c, i)["updatedAt"]
     /\ (req.pc = "write" /\ req'.pc = "idle")
          => LET r == Database_find_one(store'[req.coll], req.data["id"])
             IN r # NoDoc /\ r["updatedAt"] >= req.t0]_vars

\* C11 witness: a record cached again at a later time by a call whose
\* document carried a stale updatedAt, stored with the time of that call
C11_Witness ==
  /\ req.pc = "idle"
  /\ Has(SuppliedOf(supplied, "players")["p1"], "updatedAt")
  /\ SuppliedOf(supplied, "players")["p1"]["updatedAt"] = -1
  /\ Stored("players", "p1") # NoDoc
  /\ Stored("players", "p1")["createdAt"] < Stored("players", "p1")["updatedAt"]
  /\ Stored("players", "p1")["updatedAt"] = now

\* C12 -- createdAt immutability: once a record has been inserted by
\* cache_response, its createdAt has the same value in every later state,
\* whatever further cache_response calls are made for its id.
C12_CreatedAtImmutable ==
  [][\A c \in Collections : \A i \in Ids :
       Stored(c, i) # NoDoc
         => LET r == Database_find_one(store'[c], i)
            IN r # NoDoc /\ r["createdAt"] = Stored(c, i)["createdAt"]]_vars

\* C13 -- Expiration boundary: is_cache_expired(record) is true exactly when
\* the record is absent or empty, has no updatedAt, has an updatedAt that is
\* no timestamp (neither a datetime nor an ISO text), or is older than the
\* window (now - updatedAt > window); it is false at an age up to the window.
C13_ExpirationBoundary ==
  call.op = "is_cache_expired" =>
    LET d == call.data
        absent == d = NoDoc \/ d = EmptyDoc \/ ~Has(d, "updatedAt")
        v == d["updatedAt"]
        timestamp == v.type = "datetime" \/ (v.type = "str" /\ v.iso)
    IN call.ret = (absent \/ ~timestamp \/ call.at - v.t > ExpirationWindow)

\* C14 -- Upsert by merge: when the write of a cache_response call reaches a
\* collection that holds a record with the document's id, that record keeps
\* its place and its _id, every field of the document (other than updatedAt)
\* has the document's value on it, every other field it had (other than
\* updatedAt) keeps its value, and no record is added.
C14_UpsertByMerge ==
  [][(req.pc = "write" /\ req'.pc = "idle"
        /\ Stored(req.coll, req.data["id"]) # NoDoc)
     => LET k == FindIdx(store[req.coll], req.data["id"])
            old == store[req.coll][k]
            new == store'[req.coll][k]
        IN /\ Len(store'[req.coll]) = Len(store[req.coll])
           /\ \A j \in 1..Len(store[req.coll]) :
                j # k => store'[req.coll][j] = store[req.coll][j]
           /\ DOMAIN new = (DOMAIN old) \cup (DOMAIN req.data)
           /\ \A f \in (DOMAIN req.data) \ {"updatedAt"} : new[f] = req.data[f]
           /\ \A f \in (DOMAIN old) \ ((DOMAIN req.data) \cup {"updatedAt"}) :
                new[f] = old[f]]_vars

\* C14 witness: a record that holds a name and a flag, which no single
\* document carried: the later call kept the field of the earlier one
C14_Witness ==
  /\ req.pc = "idle"
  /\ Len(store["players"]) = 2
  /\ Has(Stored("players", "p2"), "name")
  /\ Has(Stored("players", "p2"), "isLbPlayer")
  /\ Stored("players", "p2")["_id"] = 1

\* C15 -- handle_request on a cache hit: when the lookup of handle_request
\* answers and a record with the requested id is in the collection, the call
\* returns that record's fields (without the store's _id), fetch_function is
\* not invoked and the store is unchanged, whatever the record's age.
C15_HandleHit ==
  [][(call.op = "handle_request" /\ call.pc = "lookup" /\ call' # call
        /\ Stored(call.coll, call.id) # NoDoc)
     => /\ store' = store
        /\ call'.pc = "done" /\ ~call'.raised
        /\ call'.fetches = 0
        /\ call'.ret = Without(Stored(call.coll, call.id), "_id")]_vars

\* C15 witness: handle_request has returned a record that is_cache_expired
\* reports expired, without a fetch
C15_Witness ==
  /\ call.op = "handle_request" /\ call.pc = "done" /\ call.hit
  /\ call.fetches = 0
  /\ call.ret["id"] = call.id
  /\ is_cache_expired([updatedAt |-> Naive(call.ret["updatedAt"])], now)

\* C16 -- handle_request on a cache miss: when handle_request returns after
\* finding no record, fetch_function was invoked exactly once, and if its
\* result is a field mapping or a model carrying a non-empty id, a record with
\* that id is in the collection (so that get_cached_response finds it and a
\* second handle_request is a hit).
C16_HandleMiss ==
  (call.op = "handle_request" /\ call.pc = "done" /\ ~call.hit)
    => /\ call.fetches = 1
       /\ (call.resp.kind \in {"dict", "model"} /\ call.resp.doc["id"] # "")
            => get_cached_response(store[call.coll], call.resp.doc["id"]).ret # NoDoc

\* C17 -- Absence is a value: get_cached_response for an id that has no
\* record returns None without raising, for an id that has one it returns
\* that record, and in both cases the store is unchanged.
C17_AbsenceIsValue ==
  [][(call'.op = "get_cached_response" /\ call' # call)
     => /\ store' = store
        /\ ~call'.raised
        /\ IF RecordsOf(call'.coll, call'.id) = {}
           THEN call'.ret = NoDoc
           ELSE call'.ret \in {store[call'.coll][k] : k \in RecordsOf(call'.coll, call'.id)}]_vars

\* C17 witness: None was returned for an id without a record while the
\* collection holds the record of another id
C17_Witness ==
  /\ call.op = "get_cached_response" /\ call.ret = NoDoc /\ ~call.raised
  /\ RecordsOf("players", call.id) = {}
  /\ Len(store["players"]) = 1

\* C18 -- Non-interference across ids: whenever two callers of cache_response
\* whose concurrent calls have different ids have both returned, whatever the
\* interleaving of their lookups and writes, the collection holds what the
\* same calls leave when run one after the other: one record per supplied id,
\* whose payload is the fields supplied for that id, the last value of each.
C18_NonInterference ==
  (req.pc = "idle" /\ call.pc = "done") =>
    \A i \in PlayerIds :
      IF SuppliedOf(supplied, "players")[i] = NoDoc
      THEN RecordsOf("players", i) = {}
      ELSE /\ Cardinality(RecordsOf("players", i)) = 1
           /\ Without(Without(Without(Stored("players", i), "_id"),
                               "createdAt"), "updatedAt")
                = SuppliedOf(supplied, "players")[i]

\* C18 witness: both callers have returned, the second one's call having
\* been made while the first one's lookup was pending and its record
\* inserted first; each id has its record
C18_Witness ==
  /\ req.pc = "idle" /\ call.pc = "done" /\ call.op = "cache_response"
  /\ call.overlap
  /\ Len(store["players"]) = 2
  /\ store["players"][1]["id"] = call.data["id"]
  /\ Has(Stored("players", "p1"), "name")
  /\ Has(Stored("players", "p1"), "isLbPlayer")

\* C19 -- Known same-id race: nothing in cache_response serializes two calls
\* for the same id: a call whose lookup observed not-found inserts when its
\* write is made, whether or not a record with that id has been inserted in
\* between, so two calls that both observed not-found leave two records.
C19_SameIdRace ==
  [][/\ (req.pc = "write" /\ req'.pc = "idle" /\ req.w.kind = "insert")
          => /\ Len(store'[req.coll]) = Len(store[req.coll]) + 1
             /\ store'[req.coll][Len(store'[req.coll])]["id"] = req.data["id"]
     /\ (call.pc = "cr_write" /\ call'.pc = "done" /\ call.w.kind = "insert")
          => /\ Len(store'[call.coll]) = Len(store[call.coll]) + 1
             /\ store'[call.coll][Len(store'[call.coll])]["id"] = call.data["id"]]_vars

\* C19 witness: two records with the same id, left by two calls made on an
\* empty collection that both observed not-found and have both returned
C19_Witness ==
  /\ req.pc = "idle" /\ call.pc = "done" /\ call.op = "cache_response"
  /\ call.overlap /\ call.w.kind = "insert"
  /\ Len(store["players"]) = 2
  /\ Cardinality(RecordsOf("players", call.data["id"])) = 2

\* C20 -- Club failure isolation: a roster fetch that raises does not end the
\* cycle: the task goes on to the roster fetch of the next club of the
\* working set, or, after the last club, ends the cycle normally; and a cycle
\* that ends normally has fetched the roster of every club of its working set.
C20_ClubIsolation ==
  [][\A t \in TaskIds :
       /\ (tk[t].st = "live" /\ tk[t].pc = "roster_call" /\ faults' = faults + 1)
            => /\ tk'[t].st = "live"
               /\ IF tk[t].ci < Len(tk[t].clubs)
                  THEN /\ tk'[t].pc = "roster_call"
                       /\ tk'[t].ci = tk[t].ci + 1
                       /\ tk'[t].clubs = tk[t].clubs
                  ELSE tk'[t].pc = "cycle_sleep" /\ tk'[t].outcome = "ok"
       /\ (tk[t].st = "live" /\ tk[t].pc # "cycle_sleep"
             /\ tk'[t].st = "live" /\ tk'[t].pc = "cycle_sleep"
             /\ tk'[t].outcome = "ok")
            => tk'[t].nC = Len(tk[t].clubs)]_vars

\* C20 witness: the roster fetch of the first of two clubs has just raised
\* and the task stands at the roster fetch of the second
C20_Witness ==
  \E t \in TaskIds :
    /\ tk[t].st = "live" /\ tk[t].pc = "roster_call"
    /\ Len(tk[t].clubs) = 2 /\ tk[t].ci = 2
    /\ tk[t].nC = 1 /\ tk[t].nP = 0 /\ faults = 1 /\ ~tk[t].paced

\* C21 -- Player failure isolation: a failure of the store read, of the
\* provider fetch or of the cache write of a player's refresh is caught inside
\* the refresh: the task goes to the sleep that follows that player, its
\* position in the roster and in the working set unchanged; and from that
\* sleep it goes on to the next player of the roster, or after the last one to
\* the next club (or the normal end of the cycle), whatever the refresh did.
C21_PlayerIsolation ==
  [][\A t \in TaskIds :
       /\ (tk[t].st = "live"
             /\ tk[t].pc \in {"cached_read", "profile_call", "cr_find", "cr_write"}
             /\ faults' = faults + 1)
            => /\ tk'[t].st = "live" /\ tk'[t].pc = "player_sleep"
               /\ tk'[t].result = "failed"
               /\ tk'[t].roster = tk[t].roster /\ tk'[t].pi = tk[t].pi
               /\ tk'[t].clubs = tk[t].clubs /\ tk'[t].ci = tk[t].ci
       /\ (tk[t].st = "live" /\ tk[t].pc = "player_sleep" /\ tk'[t] # tk[t])
            => /\ tk'[t].st = "live"
               /\ IF tk[t].pi < Len(tk[t].roster)
                  THEN /\ tk'[t].pc = "cached_read" /\ tk'[t].pi = tk[t].pi + 1
                       /\ tk'[t].roster = tk[t].roster /\ tk'[t].ci = tk[t].ci
                  ELSE IF tk[t].ci < Len(tk[t].clubs)
                  THEN /\ tk'[t].pc = "roster_call" /\ tk'[t].ci = tk[t].ci + 1
                       /\ tk'[t].clubs = tk[t].clubs
                  ELSE tk'[t].pc = "cycle_sleep" /\ tk'[t].outcome = "ok"]_vars

\* C21 witness: the refresh of the first player of a roster failed at its
\* store read (no profile fetch was issued) and the task is at the refresh of
\* the second player
C21_Witness ==
  \E t \in TaskIds :
    /\ tk[t].st = "live" /\ tk[t].pc = "cached_read"
    /\ tk[t].pi = 2 /\ tk[t].calls = 1 /\ faults = 1

\* C22 -- Strict sequencing inside a cycle: at most one task stands in a
\* provider call; a task in a player's refresh holds the roster fetched for
\* its current club and refreshes a player of that roster; and the task moves
\* to the roster fetch of the next club only from the current club's failed
\* roster fetch, from the sleep after an empty roster, or from the sleep after
\* the refresh of the last player of the roster.
C22_StrictSequencing ==
  [][/\ Cardinality({t \in TaskIds :
                       /\ tk[t].st \in {"live", "cancelled"}
                       /\ tk[t].pc \in {"seed_call", "roster_call", "profile_call"}})
          <= 1
     /\ \A t \in TaskIds :
          /\ (tk[t].st = "live" /\ Level(tk[t].pc) = "player")
               => /\ tk[t].ci \in 1..Len(tk[t].clubs)
                  /\ tk[t].roster = Roster(tk[t].clubs[tk[t].ci])
                  /\ tk[t].pi \in 1..Len(tk[t].roster)
          /\ (tk[t].st = "live" /\ tk'[t].st = "live"
                /\ tk'[t].pc = "roster_call" /\ tk'[t].ci = tk[t].ci + 1
                /\ tk[t].ci >= 1)
               => \/ tk[t].pc = "roster_call" /\ faults' = faults + 1
                  \/ tk[t].pc = "roster_sleep" /\ tk[t].roster = <<>>
                  \/ tk[t].pc = "player_sleep" /\ tk[t].pi = Len(tk[t].roster)]_vars

\* C22 witness: both players of the first club's roster have been refreshed
\* and the task stands at the roster fetch of the second club
C22_Witness ==
  \E t \in TaskIds :
    /\ tk[t].st = "live" /\ tk[t].pc = "roster_call" /\ tk[t].ci = 2
    /\ tk[t].nC = 1 /\ tk[t].nP = 2 /\ faults = 0
    /\ tk[t].calls = Len(popular_leagues) + 3

\* the parts of working-set discovery that do not depend on a seed query's
\* failure: a non-empty clubs collection is the working set and no seed
\* query is issued; seed queries that all yield no club end the cycle
\* normally with no roster fetch and no profile fetch
DiscoveryFromStore ==
  \A t \in TaskIds :
    /\ (tk[t].st = "live" /\ tk[t].pc = "clubs_read" /\ tk'[t] # tk[t]
          /\ faults' = faults /\ store["clubs"] # <<>>)
         => /\ tk'[t].pc = "roster_call" /\ ~tk'[t].seeded /\ tk'[t].calls = 0
            /\ tk'[t].clubs = [i \in 1..Len(store["clubs"]) |-> store["clubs"][i]["id"]]
    /\ (tk[t].st = "live" /\ tk[t].pc = "clubs_read" /\ tk'[t] # tk[t]
          /\ faults' = faults /\ store["clubs"] = <<>>)
         => tk'[t].pc = "seed_call" /\ tk'[t].seeded /\ tk'[t].li = 1
    /\ (tk[t].st = "live" /\ tk[t].pc = "seed_sleep" /\ tk[t].clubs = <<>>
          /\ tk[t].li = Len(popular_leagues) /\ tk'[t] # tk[t])
         => /\ tk'[t].pc = "cycle_sleep" /\ tk'[t].outcome = "ok"
            /\ tk'[t].nC = 0 /\ tk'[t].nP = 0
            /\ tk'[t].calls = Len(popular_leagues)

\* C23 -- Working-set discovery: a non-empty clubs collection is
\* the working set, with no seed query; on an empty one the discovery leaves
\* the seed loop having issued exactly one seed query per league of the list,
\* each followed by a SCRAPE_DELAY wait; seed queries that all yield no club
\* end the cycle normally with no roster fetch and no profile fetch.
C23_Discovery ==
  [][/\ DiscoveryFromStore
     /\ \A t \in TaskIds :
          (tk[t].st = "live" /\ tk[t].pc \in {"seed_call", "seed_sleep"}
             /\ tk'[t].st = "live" /\ tk'[t].pc \notin {"seed_call", "seed_sleep"})
          => /\ tk'[t].calls = Len(popular_leagues)
             /\ tk'[t].delays = Len(popular_leagues)]_vars

\* the positions at which a refresh_loop task is in a store read or write
StorePcs == {"clubs_read", "cached_read", "cr_find", "cr_write"}

\* C24 -- Shutdown ordering: the shutdown hook closes the store connection
\* only in the step in which stop() has returned, the service stopped and
\* its loop task (if any) done; once the connection is closed no refresh_loop
\* task completes a store read or write and the store no longer changes.
C24_ShutdownOrdering ==
  [][/\ (host.client = "open" /\ host'.client = "closed")
          => /\ ~is_running
             /\ task # 0 => tk[task].st = "done"
             /\ \A t \in TaskIds : tk[t].st \in {"unspawned", "done"}
     /\ host.client = "closed"
          => /\ store' = store
             /\ \A t \in TaskIds :
                  (tk[t].st = "live" /\ tk[t].pc \in StorePcs) => tk'[t] = tk[t]]_vars

\* C24 witness: the hook was called while the loop task was in the middle of
\* a cycle with players stored, waited for the cancelled task to exit, and
\* has closed the store
C24_Witness ==
  /\ host.pc = "down" /\ host.client = "closed"
  /\ task # 0 /\ tk[task].st = "done" /\ tk[task].exit = "cancelled"
  /\ tk[task].mid /\ store["players"] # <<>>

\* the number of records of "partners" matching the query, in `st`
NMatch(st, query) == Cardinality(MatchIdx(st["partners"], query))

\* C25 -- findOrCreate, sequentially: when a record matching the filter
\* exists the first such record is returned and the store is unchanged;
\* otherwise exactly one record is appended, the document stamped with the
\* createdAt taken when the lookup answered, and the call returns the record
\* then read back by the filter;
\* a call repeated with the same filter and a document matching the filter,
\* the first of them made with at most one match, leaves exactly one match.
C25_FindOrCreate ==
  [][(call.op = "find_or_create" /\ call' # call) =>
       LET coll == store["partners"]
           existing == Database_find_one_by(coll, call.query) IN
       /\ (call.pc = "find" /\ existing # NoDoc)
            => /\ call'.pc = "done" /\ call'.ret = existing
               /\ Matches(call'.ret, call.query) /\ store' = store
       /\ (call.pc = "find" /\ existing = NoDoc)
            => call'.pc = "insert" /\ call'.at = now /\ store' = store
       /\ call.pc = "insert"
            => /\ Len(store'["partners"]) = Len(coll) + 1
               /\ SubSeq(store'["partners"], 1, Len(coll)) = coll
               /\ Without(store'["partners"][Len(coll) + 1], "_id")
                    = Merge(call.doc, [createdAt |-> call.at])
               /\ \A c \in Stores \ {"partners"} : store'[c] = store[c]
       /\ call.pc = "readback"
            => /\ call'.pc = "done" /\ store' = store
               /\ call'.ret = existing
               /\ Matches(call.doc, call.query) => call'.ret # NoDoc
       /\ (call'.pc = "done" /\ call.pc \in {"find", "readback"}
             /\ Matches(call.doc, call.query) /\ call.n0 <= 1)
            => NMatch(store', call.query) = 1]_vars

\* C25 witness: the second of two calls with the same filter and a matching
\* document, the first of which inserted the record, has returned it
C25_Witness ==
  /\ call.op = "find_or_create" /\ call.pc = "done"
  /\ call.nth = 2 /\ call.n0 = 0 /\ Matches(call.doc, call.query)
  /\ call.ret # NoDoc /\ NMatch(store, call.query) = 1

\* the positions in collection c of the records matching the query
Hits(c, query) == MatchIdx(store[c], query)

\* the position in collection c of the k-th record matching the query
KthHit(c, query, k) ==
  CHOOSE i \in Hits(c, query) :
    Cardinality({j \in Hits(c, query) : j <= i}) = k

\* C26 -- findAll pagination: the list returned by find_all and by
\* get_all_cached_responses (whose filter matches every record) holds, in
\* insertion order, the matching records after the first skip of them: all
\* of those when limit = 0, the first limit of them (or all when fewer) when
\* limit > 0; each without the store-internal _id.
C26_Pagination ==
  (call.op \in {"find_all", "get_all_cached_responses"}) =>
    LET n == Cardinality(Hits(call.coll, call.query))
        left == IF n > call.skip THEN n - call.skip ELSE 0
        len == IF call.limit = 0 \/ left < call.limit THEN left ELSE call.limit
    IN /\ Len(call.ret) = len
       /\ \A k \in 1..len :
            LET d == store[call.coll][KthHit(call.coll, call.query, call.skip + k)]
            IN /\ ~Has(call.ret[k], "_id")
               /\ DOMAIN call.ret[k] = (DOMAIN d) \ {"_id"}
               /\ \A f \in DOMAIN call.ret[k] : call.ret[k][f] = d[f]
       /\ call.op = "get_all_cached_responses"
            => n = Len(store[call.coll])

\* C26 witness: of three matching records a call with skip 1 and limit 1
\* returned the second one alone
C26_Witness ==
  /\ call.op = "find_all" /\ call.skip = 1 /\ call.limit = 1
  /\ Cardinality(Hits(call.coll, call.query)) = 3
  /\ Len(call.ret) = 1
  /\ call.ret[1] = Without(store[call.coll][KthHit(call.coll, call.query, 2)], "_id")
  /\ call.ret[1] # Without(store[call.coll][KthHit(call.coll, call.query, 1)], "_id")

\* C26 witness for get_all_cached_responses is part of the same run: a call
\* with limit 0 returning a whole collection of several records
C26_WholeCollection ==
  /\ call.op = "get_all_cached_responses" /\ call.limit = 0 /\ call.skip = 0
  /\ Len(call.ret) = MaxPartners

\* the ids present in a collection
IdsIn(coll) == {coll[i]["id"] : i \in {j \in 1..Len(coll) : Has(coll[j], "id")}}

\* C27 -- No deletion: no step of a cache operation (get_cached_response,
\* cache_response, handle_request, listing, counting) or of a refresh_loop
\* task, cancelled ones included, removes an id from a collection or lowers
\* what count_cached_responses returns for the collection; the records
\* present keep their positions.
C27_NoDeletion ==
  [][\A c \in Collections :
       store'[c] # store[c] =>
         /\ IdsIn(store[c]) \subseteq IdsIn(store'[c])
         /\ count_cached_responses(store'[c], EmptyDoc)
              >= count_cached_responses(store[c], EmptyDoc)
         /\ \A i \in 1..Len(store[c]) :
              /\ i <= Len(store'[c])
              /\ store'[c][i]["id"] = store[c][i]["id"]]_vars

\* C27 witness: a crawl was cancelled in the middle of a cycle after it and
\* the request path had both written players, and the count taken afterwards
\* covers both records
C27_Witness ==
  /\ \E t \in TaskIds : tk[t].st = "done" /\ tk[t].exit = "cancelled" /\ tk[t].mid
  /\ call.op = "count_cached_responses" /\ call.coll = "players"
  /\ call.ret = 2 /\ IdsIn(store["players"]) = PlayerIds
  /\ \E i \in 1..2 : Has(store["players"][i], "updatedAt")

\* C28 -- Startup gating: the startup hook connects the store and leaves the
\* service running exactly when BG_REFRESH_ENABLED is true; with
\* BG_REFRESH_ENABLED false no step of the host starts the service.
C28_StartupGating ==
  [][/\ (host.pc = "loaded" /\ host'.pc = "up")
          => /\ host'.client = "open"
             /\ is_running' <=> host.enabled
             /\ host.enabled => (task' # 0 /\ tk'[task'].st = "live")
     /\ ~host.enabled => (~is_running' /\ task' = 0)]_vars

\* C29 -- Sticky flag across every refresh path: a player whose stored record
\* has isLbPlayer = true has it in every later state, whichever refresh of
\* the player writes the record, also when the refreshed data carries no
\* agent or a different agent.
C29_StickyEverywhere ==
  [][\A p \in PlayerIds :
       (Has(Stored("players", p), "isLbPlayer") /\ Stored("players", p)["isLbPlayer"])
       => LET r == Database_find_one(store'["players"], p)
          IN Has(r, "isLbPlayer") /\ r["isLbPlayer"]]_vars

\* the positions inside refresh_all_players
CyclePcs ==
  {"clubs_read", "seed_call", "seed_sleep", "roster_call", "roster_sleep",
   "cached_read", "profile_call", "cr_find", "cr_write", "player_sleep"}

\* a refresh_loop task starts a cycle
CycleStart ==
  \E t \in TaskIds :
    /\ tk[t].st = "live" /\ tk[t].pc \in {"spawned", "cycle_sleep"}
    /\ tk'[t].st = "live" /\ tk'[t].pc = "clubs_read"

\* C30 -- Cycle recurrence: a cycle ends, normally or by a caught failure,
\* only into the inter-cycle delay; a cycle starts only at the spawn of the
\* task or at the end of that delay, and the end of the delay starts a cycle
\* whenever the service is running, so one delay lies between two cycles;
\* and in every fair execution in which the service stays running from some
\* point on, cycles start again and again.
C30_CycleRecurrence ==
  /\ [][\A t \in TaskIds :
          /\ (tk[t].st = "live" /\ tk[t].pc \in CyclePcs /\ tk'[t].st = "live"
                /\ tk'[t].pc \notin CyclePcs)
               => /\ tk'[t].pc = "cycle_sleep"
                  /\ tk'[t].outcome \in {"ok", "failed"}
          /\ (tk[t].st = "live" /\ tk'[t].st = "live"
                /\ tk[t].pc # "clubs_read" /\ tk'[t].pc = "clubs_read")
               => tk[t].pc \in {"spawned", "cycle_sleep"}
          /\ (tk[t].pc # "cycle_sleep" /\ tk'[t].pc = "cycle_sleep")
               => tk[t].pc \in CyclePcs
          /\ (tk[t].st = "live" /\ tk[t].pc = "cycle_sleep" /\ tk'[t] # tk[t]
                /\ tk'[t].st # "cancelled" /\ is_running)
               => tk'[t].st = "live" /\ tk'[t].pc = "clubs_read"]_vars
  /\ (<>[]is_running) => []<><<CycleStart>>_vars

\* C30 witness: the task stands at the start of a later cycle, the players
\* written by an earlier cycle in the store
C30_Witness ==
  \E t \in TaskIds :
    /\ is_running /\ tk[t].st = "live" /\ tk[t].pc = "clubs_read"
    /\ store["players"] # <<>>

\* C31 -- Cycle termination: under a fair event loop, with provider and store
\* calls that each return or fail, a refresh_loop task that is inside a cycle
\* eventually stands at the inter-cycle delay, unless it is cancelled first;
\* this holds whatever the calls answer (data, nothing, or a failure).
C31_CycleTerminates ==
  \A t \in TaskIds :
    (tk[t].st = "live" /\ tk[t].pc \in CyclePcs)
      ~> (tk[t].st # "live" \/ tk[t].pc = "cycle_sleep")

\* C31 witness: a cycle in which a call failed, clubs were crawled and
\* players fetched has reached the inter-cycle delay
C31_Witness ==
  \E t \in TaskIds :
    /\ tk[t].st = "live" /\ tk[t].pc = "cycle_sleep"
    /\ faults > 0 /\ tk[t].nC > 0 /\ tk[t].nP > 0
    /\ tk[t].calls > Len(popular_leagues)

\* C32 -- Complete working set: when the clubs collection is non-empty, the
\* discovery step puts the id of every stored Club record in the cycle's
\* working set (the clubs the cycle will fetch the rosters of, starting with
\* the first), however many records there are.
C32_CompleteWorkingSet ==
  [][\A t \in TaskIds :
       (tk[t].st = "live" /\ tk[t].pc = "clubs_read" /\ tk'[t] # tk[t]
          /\ faults' = faults /\ store["clubs"] # <<>>)
       => /\ tk'[t].pc = "roster_call" /\ tk'[t].ci = 1
          /\ \A k \in 1..Len(store["clubs"]) :
               \E j \in 1..Len(tk'[t].clubs) :
                 tk'[t].clubs[j] = store["clubs"][k]["id"]]_vars

\* the fields cache_response and the store stamp themselves
StampFields == {"createdAt", "updatedAt"}

\* what get_cached_response answered (got) is a record with id, createdAt,
\* updatedAt and the fields of doc, not expired at time t nor a whole window
\* after t0
FreshRead(got, doc, t0, t) ==
  /\ ~got.raised /\ got.ret # NoDoc
  /\ Has(got.ret, "id") /\ Has(got.ret, "createdAt") /\ Has(got.ret, "updatedAt")
  /\ \A f \in DOMAIN doc :
       /\ Has(got.ret, f)
       /\ f \notin StampFields => got.ret[f] = doc[f]
  /\ ~is_cache_expired(AsStored(got.ret), t)
  /\ ~is_cache_expired(AsStored(got.ret), t0 + ExpirationWindow)

\* C33 -- Write-then-read freshness: when a cache_response call returns,
\* get_cached_response for the document's id answers a record that carries
\* id, createdAt and updatedAt and every field of the document (the payload
\* fields with the document's values), and is_cache_expired of that record
\* is false then and for as long as the clock has not advanced beyond the
\* window since the call was made; every record in a collection filled by
\* cache_response carries id, createdAt and updatedAt.
C33_WriteThenReadFresh ==
  [][/\ (req.pc = "write" /\ req'.pc = "idle")
          => FreshRead(get_cached_response(store'[req.coll], req.data["id"]),
                       req.data, req.t0, now')
     /\ store' # store
          => \A c \in Collections : \A k \in 1..Len(store'[c]) :
               /\ Has(store'[c][k], "id")
               /\ Has(store'[c][k], "createdAt")
               /\ Has(store'[c][k], "updatedAt")]_vars

\* C33 witness: a call whose document carried a stale updatedAt has inserted
\* a record, and a later call with a payload has updated it; the record read
\* back is fresh
C33_Witness ==
  /\ req.pc = "idle" /\ now > 0
  /\ \E p \in PlayerIds :
       LET r == get_cached_response(store["players"], p).ret IN
       /\ r # NoDoc
       /\ Has(SuppliedOf(supplied, "players")[p], "updatedAt")
       /\ SuppliedOf(supplied, "players")[p]["updatedAt"] = -1
       /\ Has(r, "name") /\ r["createdAt"] < r["updatedAt"]
       /\ ~is_cache_expired(AsStored(r), now)

\* the handlers that check expiry
ExpiryOps ==
  {"get_player_profile"} \cup {hd.op : hd \in {x \in Handlers : x.checks}}

\* C34 -- Expiry-checking call sites: when the lookup of such a handler has
\* answered, the provider has been called exactly if no record is cached
\* under the key or is_cache_expired is true for it; a cached record that is
\* not expired is returned (no failure); and when a call that found an
\* expired record and fetched successfully is over, the record is no longer
\* expired, so that a repeated request is served from the cache.
C34_ExpiryCallSites ==
  [][call.op \in ExpiryOps =>
       LET cached == Database_find_one(store[call.coll], call.key)
           stale == cached = NoDoc \/ is_cache_expired(AsStored(cached), now)
           after == Database_find_one(store'[call.coll], call.key)
       IN /\ (call.pc = "lookup" /\ call'.pc # "lookup")
               => /\ call'.fetches = (IF stale THEN 1 ELSE 0)
                  /\ ~stale => /\ ~call'.raised
                               /\ call'.pc = "done" => call'.ret = cached
          /\ (call.pc # "done" /\ call'.pc = "done" /\ cached # NoDoc
                /\ call'.fetches = 1 /\ call'.resp.kind = "dict")
               => /\ after # NoDoc
                  /\ ~is_cache_expired(AsStored(after), now')]_vars

\* C35 -- Sticky flag under interleaving: whatever request-path
\* cache_response steps ran between the Scheduler's read of a player's record
\* and its write, the Scheduler's write of a fetched profile that carries no
\* isLbPlayer field leaves a stored isLbPlayer = true as it is, and leaves
\* every stored field that the fetched profile does not carry as it is.
C35_StickyInterleaved ==
  [][\A t \in TaskIds :
       (tk[t].st = "live" /\ tk[t].pc = "cr_write" /\ tk'[t].result = "written")
       => LET p == tk[t].data["id"]
              fetched == DOMAIN tk[t].data \ {"isLbPlayer"}
              before == Stored("players", p)
              after == Database_find_one(store'["players"], p)
          IN /\ after # NoDoc
             /\ before # NoDoc =>
                  /\ (Has(before, "isLbPlayer") /\ before["isLbPlayer"])
                       => (Has(after, "isLbPlayer") /\ after["isLbPlayer"])
                  /\ \A f \in DOMAIN before \ (fetched \cup {"updatedAt"}) :
                       Has(after, f) /\ after[f] = before[f]]_vars

\* C35 witness: the Scheduler found no record of the player, register_player
\* then inserted the flagged record, and the Scheduler's write has landed
\* after it; the record of the player is the flagged one with its own fields
C35_Witness ==
  \E t \in TaskIds :
    /\ tk[t].st = "live" /\ tk[t].pc = "player_sleep" /\ tk[t].result = "written"
    /\ LET p == tk[t].roster[tk[t].pi] IN
       /\ Cardinality(RecordsOf("players", p)) = 2
       /\ Stored("players", p)["isLbPlayer"] = TRUE
       /\ Stored("players", p)["notes"] = "n"
       /\ \E k \in RecordsOf("players", p) :
            ~Has(store["players"][k], "isLbPlayer") /\ store["players"][k]["name"] = "B"

\* C36 -- Scheduler write footprint: a step of a refresh_loop task changes no
\* collection but players (the clubs collection stays as it is, so the clubs
\* found by seeding are not stored), and every cycle whose read of the clubs
\* collection finds it empty starts the seed queries from the first league.
C36_WriteFootprint ==
  [][\A t \in TaskIds :
       /\ tk'[t] # tk[t]
            => \A c \in Stores \ {"players"} : store'[c] = store[c]
       /\ (tk[t].st = "live" /\ tk[t].pc = "clubs_read" /\ tk'[t] # tk[t]
             /\ faults' = faults /\ store["clubs"] = <<>>)
            => /\ tk'[t].pc = "seed_call" /\ tk'[t].li = 1
               /\ tk'[t].calls = 0 /\ tk'[t].clubs = <<>>]_vars

\* C36 witness: a later cycle is at its first seed query: an earlier cycle
\* seeded clubs and cached their players, and the clubs collection is still
\* empty
C36_Witness ==
  \E t \in TaskIds :
    /\ tk[t].st = "live" /\ tk[t].pc = "seed_call" /\ tk[t].li = 1
    /\ tk[t].seeded /\ tk[t].calls = 0
    /\ store["players"] # <<>> /\ store["clubs"] = <<>>

\* C37 -- Timestamp order on insert: on the insert path of cache_response the
\* createdAt is stamped from the clock when find_one has answered (by
\* cache_response and again by insert_one), after the updatedAt stamped when
\* the call was made; the inserted record carries that createdAt, whatever
\* createdAt the caller's document had, and that updatedAt, so its
\* createdAt >= updatedAt.
C37_InsertTimestampOrder ==
  [][/\ (req.pc = "find" /\ req'.pc = "write" /\ req'.w.kind = "insert")
          => /\ req'.w.at = now /\ req'.w.doc["createdAt"] = now
             /\ req'.w.doc["updatedAt"] = req.t0
     /\ (req.pc = "write" /\ req'.pc = "idle" /\ req.w.kind = "insert")
          => LET coll == store'[req.coll]
                 r == coll[Len(coll)]
             IN /\ Len(coll) = Len(store[req.coll]) + 1
                /\ r["id"] = req.data["id"]
                /\ r["createdAt"] = req.w.at
                /\ r["updatedAt"] = req.t0
                /\ r["createdAt"] >= r["updatedAt"]]_vars

\* C37 witness: a document that carried a createdAt of the caller's (-1) has
\* been inserted by a call during which the clock advanced: the record has
\* the createdAt of the insert, later than its updatedAt
C37_Witness ==
  /\ req.pc = "idle"
  /\ \E p \in PlayerIds :
       LET r == Stored("players", p) IN
       /\ r # NoDoc /\ ~Has(r, "name") /\ Has(r, "isLbPlayer")
       /\ SuppliedOf(supplied, "players")[p]["createdAt"] = -1
       /\ r["createdAt"] > r["updatedAt"] /\ r["updatedAt"] = 0

====
